---- MODULE Spec2Model ----
(***************************************************************************)
(* Sat-index resolution of the Termina console.                            *)
(*                                                                         *)
(* Two implementations of the OCI engine live in the repository:           *)
(*   "Home"     src/client/src/pages/Home.tsx (fillPage, getBitmapSat,     *)
(*              getBitmapInscriptionId; the page cache is the array        *)
(*              `pages`, shared by reference by every call)                *)
(*   "part_001" src/unnamed/part_001 (loadDistrictPage, getBitmapSat,      *)
(*              getBitmapInscriptionId; the page cache is the React state  *)
(*              ociData.loadedPages, read through the closure of the       *)
(*              command that is running)                                   *)
(* The variable impl says which of the two a behaviour runs.  The decoders  *)
(* of src/unnamed/part_000 (decodeCBOR, hexToText, decodeMetadata and the  *)
(* metadata step of the INSCRIPTION command) run with impl = "part_000".   *)
(* The command line of both implementations (startup detection, the Enter  *)
(* key, isProcessing, baseUrl and the handlers) is SpecTerminal.           *)
(*                                                                         *)
(* Scaling: a page has PageSize slots where the source has 100000, so the  *)
(* districts are 0 .. NumPages*PageSize-1 where the source has 0..839999;  *)
(* text payloads are sequences of one-character strings.                   *)
(***************************************************************************)
EXTENDS Integers, Sequences, FiniteSets, TLC

(***************************************************************************)
(* Bounds of the model.                                                    *)
(***************************************************************************)
\* slots of a page (100000 in the source, scaled)
PageSize == 3
\* calls issued in one behaviour
MaxCalls == 2

(***************************************************************************)
(* Program constants.                                                      *)
(***************************************************************************)
\* Array(9).fill(0): the nine pages
NumPages == 9

\* the last valid district (839999 in the source)
MaxDistrict == NumPages * PageSize - 1

Pages == 0 .. (NumPages - 1)

(***************************************************************************)
(* JavaScript values, tagged.                                              *)
(***************************************************************************)
Num(n) == [t |-> "num", v |-> n]
Str(s) == [t |-> "str", v |-> s]
Arr(xs) == [t |-> "arr", v |-> xs]
Obj(kvs) == [t |-> "obj", v |-> kvs]
NaN == [t |-> "nan", v |-> 0]
Undefined == [t |-> "undef", v |-> 0]

IsNum(x) == x.t = "num"
IsArr(x) == x.t = "arr"
IsStr(x) == x.t = "str"
IsObj(x) == x.t = "obj"

\* JavaScript truthiness of a value: 0, NaN, undefined and "" are falsy
Truthy(x) ==
    CASE x.t = "num" -> x.v # 0
      [] x.t = "nan" -> FALSE
      [] x.t = "undef" -> FALSE
      [] x.t = "str" -> x.v # <<>>
      [] OTHER -> TRUE

(***************************************************************************)
(* Text helpers: String.prototype.replaceAll, includes, trim, startsWith.  *)
(***************************************************************************)
Digits == {"0", "1", "2", "3", "4", "5", "6", "7", "8", "9"}

DigitVal(c) ==
    CASE c = "0" -> 0 [] c = "1" -> 1 [] c = "2" -> 2 [] c = "3" -> 3
      [] c = "4" -> 4 [] c = "5" -> 5 [] c = "6" -> 6 [] c = "7" -> 7
      [] c = "8" -> 8 [] c = "9" -> 9

StartsWithAt(s, i, pat) ==
    /\ i + Len(pat) - 1 <= Len(s)
    /\ \A k \in 1 .. Len(pat) : s[i + k - 1] = pat[k]

RECURSIVE ReplaceAllFrom(_, _, _)
ReplaceAllFrom(s, i, pat) ==
    IF i > Len(s) THEN <<>>
    ELSE IF StartsWithAt(s, i, pat) THEN ReplaceAllFrom(s, i + Len(pat), pat)
    ELSE <<s[i]>> \o ReplaceAllFrom(s, i + 1, pat)

\* s.replaceAll(pat, ''): every non-overlapping occurrence, left to right
RemoveAll(s, pat) == ReplaceAllFrom(s, 1, pat)

RECURSIVE ReplaceWithFrom(_, _, _, _)
ReplaceWithFrom(s, i, pat, by) ==
    IF i > Len(s) THEN <<>>
    ELSE IF StartsWithAt(s, i, pat) THEN by \o ReplaceWithFrom(s, i + Len(pat), pat, by)
    ELSE <<s[i]>> \o ReplaceWithFrom(s, i + 1, pat, by)

\* s.replaceAll(pat, by)
ReplaceAll(s, pat, by) == ReplaceWithFrom(s, 1, pat, by)

\* s.includes(pat)
Includes(s, pat) == \E i \in 1 .. Len(s) : StartsWithAt(s, i, pat)

\* a space, or a line break (the character, not the two-character text \n)
Whitespace == {" ", "\n"}

RECURSIVE TrimLeft(_)
TrimLeft(s) == IF s # <<>> /\ Head(s) \in Whitespace THEN TrimLeft(Tail(s)) ELSE s

RECURSIVE TrimRight(_)
TrimRight(s) ==
    IF s # <<>> /\ s[Len(s)] \in Whitespace THEN TrimRight(SubSeq(s, 1, Len(s) - 1)) ELSE s

\* s.trim()
Trim(s) == TrimRight(TrimLeft(s))

\* the two-character text \n (a backslash and the letter n), `\"`, and runs of spaces
BackslashN == <<"\\", "n">>
BackslashQuote == <<"\\", "\"">>
Quote == <<"\"">>
TwoSpaces == <<" ", " ">>
BackslashNTwoSpaces == <<"\\", "n", " ", " ">>

(***************************************************************************)
(* JSON.parse on a text, by recursive descent.  A parse result is          *)
(* [ok, val, pos]: pos is the position after the value.                    *)
(***************************************************************************)
Fail == [ok |-> FALSE, val |-> Undefined, pos |-> 0]
Good(val, pos) == [ok |-> TRUE, val |-> val, pos |-> pos]

RECURSIVE SkipWs(_, _)
SkipWs(s, i) == IF i <= Len(s) /\ s[i] \in Whitespace THEN SkipWs(s, i + 1) ELSE i

RECURSIVE ParseDigits(_, _, _)
ParseDigits(s, i, acc) ==
    IF i <= Len(s) /\ s[i] \in Digits
    THEN ParseDigits(s, i + 1, 10 * acc + DigitVal(s[i]))
    ELSE Good(Num(acc), i)

\* a JSON number: 0, or a non-zero digit followed by digits
ParseNumber(s, i) ==
    IF s[i] = "0" THEN Good(Num(0), i + 1) ELSE ParseDigits(s, i, 0)

\* the characters of a JSON string after its opening quote
RECURSIVE ParseChars(_, _, _)
ParseChars(s, i, acc) ==
    IF i > Len(s) THEN Fail
    ELSE IF s[i] = "\"" THEN Good(Str(acc), i + 1)
    ELSE IF s[i] = "\\"
         THEN IF i + 1 > Len(s) THEN Fail
              ELSE IF s[i + 1] = "n" THEN ParseChars(s, i + 2, Append(acc, "\n"))
              ELSE IF s[i + 1] = "\"" THEN ParseChars(s, i + 2, Append(acc, "\""))
              ELSE IF s[i + 1] = "\\" THEN ParseChars(s, i + 2, Append(acc, "\\"))
              ELSE Fail
    ELSE IF s[i] = "\n" THEN Fail
    ELSE ParseChars(s, i + 1, Append(acc, s[i]))

RECURSIVE ParseValue(_, _)
RECURSIVE ParseElements(_, _, _)
RECURSIVE ParseMembers(_, _, _)

\* position j follows an element val of an array: `,` and another element, or `]`
ElementEnd(s, j, val, acc) ==
    IF j > Len(s) THEN Fail
    ELSE IF s[j] = "," THEN ParseElements(s, j + 1, Append(acc, val))
    ELSE IF s[j] = "]" THEN Good(Arr(Append(acc, val)), j + 1)
    ELSE Fail

AfterElement(s, r, acc) ==
    IF ~r.ok THEN Fail ELSE ElementEnd(s, SkipWs(s, r.pos), r.val, acc)

\* the elements of an array, from position i
ParseElements(s, i, acc) == AfterElement(s, ParseValue(s, i), acc)

\* position j follows a member key : val of an object: `,` or `}`
MemberEnd(s, j, key, val, acc) ==
    IF j > Len(s) THEN Fail
    ELSE IF s[j] = "," THEN ParseMembers(s, j + 1, Append(acc, <<key, val>>))
    ELSE IF s[j] = "}" THEN Good(Obj(Append(acc, <<key, val>>)), j + 1)
    ELSE Fail

AfterMemberValue(s, key, r, acc) ==
    IF ~r.ok THEN Fail ELSE MemberEnd(s, SkipWs(s, r.pos), key, r.val, acc)

MemberColon(s, c, key, acc) ==
    IF c > Len(s) \/ s[c] # ":" THEN Fail
    ELSE AfterMemberValue(s, key, ParseValue(s, c + 1), acc)

AfterMemberKey(s, key, acc) ==
    IF ~key.ok THEN Fail ELSE MemberColon(s, SkipWs(s, key.pos), key.val.v, acc)

MemberKey(s, k, acc) ==
    IF k > Len(s) \/ s[k] # "\"" THEN Fail
    ELSE AfterMemberKey(s, ParseChars(s, k + 1, <<>>), acc)

\* the members of an object, from position i: "key" : value, ...
ParseMembers(s, i, acc) == MemberKey(s, SkipWs(s, i), acc)

\* position k is the first non-blank one after `[` at j
ArrayAt(s, j, k) ==
    IF k <= Len(s) /\ s[k] = "]" THEN Good(Arr(<<>>), k + 1)
    ELSE ParseElements(s, j + 1, <<>>)

\* position k is the first non-blank one after `{` at j
ObjectAt(s, j, k) ==
    IF k <= Len(s) /\ s[k] = "}" THEN Good(Obj(<<>>), k + 1)
    ELSE ParseMembers(s, j + 1, <<>>)

ValueAt(s, j) ==
    IF j > Len(s) THEN Fail
    ELSE IF s[j] \in Digits THEN ParseNumber(s, j)
    ELSE IF s[j] = "\"" THEN ParseChars(s, j + 1, <<>>)
    ELSE IF s[j] = "[" THEN ArrayAt(s, j, SkipWs(s, j + 1))
    ELSE IF s[j] = "{" THEN ObjectAt(s, j, SkipWs(s, j + 1))
    ELSE Fail

ParseValue(s, i) == ValueAt(s, SkipWs(s, i))

\* the whole text must be one value
WholeText(s, r) == IF r.ok /\ SkipWs(s, r.pos) = Len(s) + 1 THEN r ELSE Fail

\* JSON.parse(s): ok = FALSE stands for the SyntaxError it throws
JSONparse(s) == WholeText(s, ParseValue(s, 1))

(***************************************************************************)
(* parseInt, property keys and Object.entries.                             *)
(***************************************************************************)
RECURSIVE DigitsPrefix(_, _, _)
DigitsPrefix(s, i, acc) ==
    IF i <= Len(s) /\ s[i] \in Digits
    THEN DigitsPrefix(s, i + 1, 10 * acc + DigitVal(s[i]))
    ELSE acc

\* parseInt of a text: leading white space, then the longest run of digits
DigitsAt(s, i) ==
    IF i <= Len(s) /\ s[i] \in Digits THEN Num(DigitsPrefix(s, i, 0)) ELSE NaN

ParseIntText(s) == DigitsAt(s, SkipWs(s, 1))

\* parseInt(x): x is first converted with String(x); an array converts to
\* its elements joined by commas, so only its first element is read
RECURSIVE ParseInt(_)
ParseInt(x) ==
    CASE x.t = "num" -> x
      [] x.t = "str" -> ParseIntText(x.v)
      [] x.t = "arr" -> IF x.v = <<>> THEN NaN ELSE ParseInt(x.v[1])
      [] OTHER -> NaN

\* a + b on numbers, NaN when either side is NaN
Plus(a, b) == IF IsNum(a) /\ IsNum(b) THEN Num(a.v + b.v) ELSE NaN

\* a canonical array index as a text: 0, or digits with no leading zero
IsIndexText(s) ==
    /\ s # <<>>
    /\ \A k \in 1 .. Len(s) : s[k] \in Digits
    /\ (Len(s) > 1 => s[1] # "0")

\* the array index that `array[x] = ...` writes, or -1 when x names an
\* ordinary property, which no indexed read sees
RECURSIVE ToIndex(_)
ToIndex(x) ==
    CASE x.t = "num" -> IF x.v >= 0 THEN x.v ELSE -1
      [] x.t = "str" -> IF IsIndexText(x.v) THEN DigitsPrefix(x.v, 1, 0) ELSE -1
      [] x.t = "arr" -> IF Len(x.v) = 1 THEN ToIndex(x.v[1]) ELSE -1
      [] OTHER -> -1

\* the value of key k in the members kvs: the last one written wins
RECURSIVE ObjGet(_, _)
ObjGet(kvs, k) ==
    IF kvs = <<>> THEN Undefined
    ELSE IF kvs[Len(kvs)][1] = k THEN kvs[Len(kvs)][2]
    ELSE ObjGet(SubSeq(kvs, 1, Len(kvs) - 1), k)

\* the keys of the members in order of first appearance
RECURSIVE KeysOf(_, _)
KeysOf(kvs, seen) ==
    IF kvs = <<>> THEN seen
    ELSE IF \E i \in 1 .. Len(seen) : seen[i] = kvs[1][1]
         THEN KeysOf(Tail(kvs), seen)
         ELSE KeysOf(Tail(kvs), Append(seen, kvs[1][1]))

LeastKey(ks) ==
    CHOOSE k \in ks : \A o \in ks : DigitsPrefix(k, 1, 0) <= DigitsPrefix(o, 1, 0)

RECURSIVE SortedIndexKeys(_)
SortedIndexKeys(ks) ==
    IF ks = {} THEN <<>>
    ELSE <<LeastKey(ks)>> \o SortedIndexKeys(ks \ {LeastKey(ks)})

IsIndexKey(k) == IsIndexText(k)
IsNameKey(k) == ~IsIndexText(k)

OrderKeys(ks) ==
    SortedIndexKeys({ks[i] : i \in {j \in 1 .. Len(ks) : IsIndexKey(ks[j])}})
        \o SelectSeq(ks, IsNameKey)

\* Object.keys(obj): index-like keys in ascending order, then the others in
\* insertion order
ObjectKeys(kvs) == OrderKeys(KeysOf(kvs, <<>>))

EntriesOf(kvs, ks) == [i \in 1 .. Len(ks) |-> <<ks[i], ObjGet(kvs, ks[i])>>]

\* Object.entries(obj)
ObjectEntries(kvs) == EntriesOf(kvs, ObjectKeys(kvs))

ValuesOf(kvs, ks) == [i \in 1 .. Len(ks) |-> ObjGet(kvs, ks[i])]

\* Object.values(obj), in the order of Object.keys
ObjectValues(kvs) == ValuesOf(kvs, ObjectKeys(kvs))

(***************************************************************************)
(* A page array: a JavaScript array, element k of the array at position    *)
(* k + 1 of the sequence; a hole reads as undefined.                       *)
(***************************************************************************)
At(arr, k) == IF k >= 0 /\ k < Len(arr) THEN arr[k + 1] ELSE Undefined

\* array[k] = x: the array grows, leaving holes, when k is past its end
SetAt(arr, k, x) ==
    [i \in 1 .. (IF k + 1 > Len(arr) THEN k + 1 ELSE Len(arr)) |->
        IF i = k + 1 THEN x ELSE IF i <= Len(arr) THEN arr[i] ELSE Undefined]

\* array.slice(a, b): elements a .. b-1
Slice(xs, a, b) ==
    LET hi == IF b > Len(xs) THEN Len(xs) ELSE b IN
    IF a >= hi THEN <<>> ELSE SubSeq(xs, a + 1, hi)

\* Array(PageSize).fill(0)
ZeroPage == [i \in 1 .. PageSize |-> Num(0)]

(***************************************************************************)
(* Rebuilding a page from its [deltas, indices] pair.                      *)
(***************************************************************************)
\* a push of the delta itself, without the sat before it
PushDelta(before, sat) == Append(before, ParseInt(sat))

\* fullSats.push(parseInt(fullSats[i-1]) + parseInt(sat))
PushSat(before, sat) ==
    Append(before, Plus(ParseInt(before[Len(before)]), ParseInt(sat)))

\* fullSats: the running sum of parseInt of the deltas
RECURSIVE FullSats(_)
FullSats(deltas) ==
    IF deltas = <<>> THEN <<>>
    ELSE IF Len(deltas) = 1 THEN <<ParseInt(deltas[1])>>
    ELSE PushSat(FullSats(SubSeq(deltas, 1, Len(deltas) - 1)), deltas[Len(deltas)])

\* Home.tsx: filledArray[index] = fullSats[i]
Place(before, k, sat) == IF k < 0 THEN before ELSE SetAt(before, k, sat)

\* Home.tsx: data[1].forEach((index, i) => filledArray[index] = fullSats[i]),
\* for the first n indices
RECURSIVE FilledArray(_, _, _)
FilledArray(indices, fullSats, n) ==
    IF n = 0 THEN ZeroPage
    ELSE Place(FilledArray(indices, fullSats, n - 1), ToIndex(indices[n]),
               At(fullSats, n - 1))

\* part_001: if (i < fullSats.length) filledArray[index] = fullSats[i]
GuardedPlace(before, k, fullSats, i) ==
    IF i < Len(fullSats) THEN Place(before, k, fullSats[i + 1]) ELSE before

RECURSIVE GuardedFilledArray(_, _, _)
GuardedFilledArray(indices, fullSats, n) ==
    IF n = 0 THEN ZeroPage
    ELSE GuardedPlace(GuardedFilledArray(indices, fullSats, n - 1),
                      ToIndex(indices[n]), fullSats, n - 1)

\* the page array Home.tsx builds from a verified pair
Rebuild(deltas, indices) == FilledArray(indices, FullSats(deltas), Len(indices))

\* the page array part_001 builds from a verified pair (pages 2 .. 8)
GuardedRebuild(deltas, indices) ==
    GuardedFilledArray(indices, FullSats(deltas), Len(indices))

(***************************************************************************)
(* The parse of a page's text.  A result is [ok, data]; ok = FALSE stands  *)
(* for an exception thrown out of the parse.                               *)
(***************************************************************************)
Thrown == [ok |-> FALSE, data |-> Undefined]
Parsed(x) == [ok |-> TRUE, data |-> x]
Lift(r) == IF r.ok THEN Parsed(r.val) ELSE Thrown

\* data = [data.slice(0, 99999), data.slice(100000, 199999)]
SplitFlat(r) ==
    IF ~r.ok THEN Thrown
    ELSE Parsed(Arr(<<Arr(Slice(r.val.v, 0, PageSize - 1)),
                      Arr(Slice(r.val.v, PageSize, 2 * PageSize - 1))>>))

\* pages 2 and 3: the text is wrapped in brackets and the flat list split
BarePair(text) == SplitFlat(JSONparse(<<"[">> \o text \o <<"]">>))

FirstParsed(a, b, c) ==
    IF a.ok THEN Parsed(a.val) ELSE IF b.ok THEN Parsed(b.val) ELSE Lift(c)

\* pages 4 .. 8: three parsing attempts, the first that does not throw wins
Repair(text) ==
    FirstParsed(JSONparse(RemoveAll(text, BackslashNTwoSpaces)),
                JSONparse(RemoveAll(text, TwoSpaces)),
                JSONparse(text))

\* Array.isArray(data) && Array.isArray(data[0]) && Array.isArray(data[1])
LooksLikePair(data) ==
    /\ IsArr(data)
    /\ IsArr(At(data.v, 0))
    /\ IsArr(At(data.v, 1))

\* if (!isNaN(parseInt(index)) && !isNaN(parseInt(value))): push both
KeepNumeric(k, v, rest) ==
    IF IsNum(k) /\ IsNum(v) THEN <<(<<k, v>>)>> \o rest ELSE rest

\* Home.tsx, pages 0 and 1: the entries of an object whose key and value
\* both parseInt to a number
RECURSIVE NumericEntries(_)
NumericEntries(es) ==
    IF es = <<>> THEN <<>>
    ELSE KeepNumeric(ParseIntText(es[1][1]), ParseInt(es[1][2]), NumericEntries(Tail(es)))

\* if (deltas.length > 0 && indices.length > 0) data = [deltas, indices]
PairOrSame(data, deltas, indices) ==
    IF Len(deltas) > 0 /\ Len(indices) > 0
    THEN Arr(<<Arr(deltas), Arr(indices)>>)
    ELSE data

FromEntries(data, es) ==
    PairOrSame(data, [i \in 1 .. Len(es) |-> es[i][2]], [i \in 1 .. Len(es) |-> es[i][1]])

\* Home.tsx, pages 0 and 1: a value that is not a pair of arrays is turned
\* into one when it is a plain array (taken as deltas, indices 0, 1, ...)
\* or an object (keys as indices, values as deltas)
Restructure(data) ==
    IF LooksLikePair(data) THEN data
    ELSE IF IsArr(data) /\ ~IsArr(At(data.v, 0))
    THEN PairOrSame(data, [i \in 1 .. Len(data.v) |-> ParseInt(data.v[i])],
                          [i \in 1 .. Len(data.v) |-> Num(i - 1)])
    ELSE IF IsObj(data) THEN FromEntries(data, NumericEntries(ObjectEntries(data.v)))
    ELSE data

\* data = typeof parsed === 'string' ? JSON.parse(parsed) : parsed
Reparse(first) ==
    IF first.ok /\ IsStr(first.val) THEN JSONparse(first.val.v) ELSE first

OrFixed(inner, text) ==
    IF inner.ok THEN Parsed(inner.val)
    ELSE Lift(JSONparse(ReplaceAll(RemoveAll(text, BackslashN), BackslashQuote, Quote)))

\* Home.tsx, pages 0 and 1, text holding \n or \": parse, parse again when
\* the result is a string, and on any exception parse with the escapes removed
Unescape(text) == OrFixed(Reparse(JSONparse(text)), text)

Restructured(r) == IF r.ok THEN Parsed(Restructure(r.data)) ELSE Thrown

\* Home.tsx, pages 0 and 1
SpecialPage(text) ==
    IF StartsWithAt(Trim(text), 1, <<"[", "[">>) THEN Lift(JSONparse(text))
    ELSE IF Includes(text, BackslashN) \/ Includes(text, BackslashQuote)
    THEN Restructured(Unescape(text))
    ELSE Restructured(Lift(JSONparse(text)))

\* `return false` / `return null`: no page array
NoPage == [ok |-> FALSE, page |-> <<>>]

\* Home.tsx fillPage: the parse of the response text, by page
HomeParse(page, text) ==
    IF page \in {0, 1} THEN SpecialPage(text)
    ELSE IF page \in {2, 3} THEN BarePair(text)
    ELSE Repair(text)

\* Home.tsx fillPage: the format checks, then the page array
HomeVerify(r) ==
    IF ~r.ok THEN NoPage
    ELSE IF ~IsArr(r.data) THEN NoPage
    ELSE IF ~IsArr(At(r.data.v, 0)) \/ ~IsArr(At(r.data.v, 1)) THEN NoPage
    ELSE [ok |-> TRUE, page |-> Rebuild(r.data.v[1].v, r.data.v[2].v)]

\* Home.tsx fillPage, from the response text to the page array
HomeFill(page, text) == HomeVerify(HomeParse(page, text))

(***************************************************************************)
(* part_001 loadDistrictPage, from the response text to the page array.    *)
(***************************************************************************)
\* pages 0 and 1 are not parsed: slot i gets baseValue + 3 * i
Representative(page) ==
    [i \in 1 .. PageSize |-> Num((IF page = 0 THEN 1000000 ELSE 5000000) + (i - 1) * 3)]

PairOfValues(data, vals) ==
    IF Len(vals) = 2 /\ IsArr(vals[1]) /\ IsArr(vals[2])
    THEN Arr(<<vals[1], vals[2]>>)
    ELSE data

\* a two-key object whose values are arrays becomes the pair of its values
Normalize(data) ==
    IF IsArr(data) /\ Len(data.v) = 2 THEN data
    ELSE IF IsObj(data) THEN PairOfValues(data, ObjectValues(data.v))
    ELSE data

\* part_001 loadDistrictPage: the parse of the response text, by page
Part001Parse(page, text) ==
    IF page \in {0, 1}
    THEN Parsed(Arr(<<Arr(<<Num(page * PageSize * 1000)>>),
                      Arr([i \in 1 .. PageSize |-> Num(i - 1)])>>))
    ELSE IF page \in {2, 3} THEN BarePair(text)
    ELSE Repair(text)

\* part_001 loadDistrictPage: the format check, then the page array
Part001Verify(page, data) ==
    IF ~IsArr(data) \/ Len(data.v) # 2 THEN NoPage
    ELSE IF ~IsArr(data.v[1]) \/ ~IsArr(data.v[2]) THEN NoPage
    ELSE IF page \in {0, 1} THEN [ok |-> TRUE, page |-> Representative(page)]
    ELSE [ok |-> TRUE, page |-> GuardedRebuild(data.v[1].v, data.v[2].v)]

Part001Normalized(page, r) ==
    IF ~r.ok THEN NoPage ELSE Part001Verify(page, Normalize(r.data))

\* part_001 loadDistrictPage, from the response text to the page array
Part001Fill(page, text) == Part001Normalized(page, Part001Parse(page, text))

(***************************************************************************)
(* The tables of the OCI module.                                           *)
(***************************************************************************)
\* allPages / pageUrls: the content URL of each page (first characters of
\* each inscription id)
allPages ==
    <<"01bba6c5", "bb01dfa9", "bb02e94f", "bb037ec9", "bb9438f4",
      "bb0542d4", "bb06a4df", "bb076934", "bb986a12">>

Urls == {allPages[i] : i \in 1 .. Len(allPages)}

\* district number of slot k of page p
District(p, k) == p * PageSize + k

\* satIndices: the districts that are not the first inscription on their
\* sat; the 46 entries of the source are scaled to one on the first page,
\* one on the last page and one above the last district
satIndices ==
    [d \in {District(0, 0), District(8, 1), MaxDistrict + 2} |->
        IF d = District(8, 1) THEN 2 ELSE 1]

\* a getBitmapSatIndex without the table, as if every district were the
\* first inscription on its sat
FirstOnSat(d) == 0

\* getBitmapSatIndex: satIndices[bitmapNumber] || 0
getBitmapSatIndex(d) == IF d \in DOMAIN satIndices THEN satIndices[d] ELSE 0

\* a page number rounded up instead of down
PageOfCeil(d) == (d + PageSize - 1) \div PageSize

\* Math.floor(bitmapNumber / 100000)
PageOf(d) == d \div PageSize

\* bitmapNumber % 100000
SlotOf(d) == d % PageSize

\* a range check that forgets the districts below 0
AboveRange(d) == d > MaxDistrict

\* the range check that opens getBitmapSat
OutOfRange(d) == d < 0 \/ d > MaxDistrict

\* JavaScript null
Null == [t |-> "null", v |-> 0]

\* !x
Falsy(x) == x.t = "null" \/ ~Truthy(x)

\* part_001 getBitmapSat: the value made up for a slot that reads as falsy
FallbackValue(page, index) ==
    IF page \in {0, 1}
    THEN Num((IF page = 0 THEN 1000000 ELSE 5000000) + index * 3)
    ELSE Num(1000000 + page * 100000 + index * 2)

\* what getBitmapSat returns for a district of a page array it holds
HomeRead(arr, d) == At(arr, SlotOf(d))

Part001Read(arr, d) ==
    IF Falsy(At(arr, SlotOf(d))) THEN FallbackValue(PageOf(d), SlotOf(d))
    ELSE At(arr, SlotOf(d))

(***************************************************************************)
(* The inputs of the model.                                                *)
(***************************************************************************)
Callers == {"a", "b"}

\* the districts the callers ask for: two on page 0, one on pages 2, 4 and
\* 8, and one on each side of the valid range
Districts ==
    {-1, District(0, 0), District(0, 1), District(2, 0), District(4, 0),
     District(8, 1), MaxDistrict + 1}

\* [[7,2],[2,0]]: a pair of arrays
TextPair == <<"[", "[", "7", ",", "2", "]", ",", "[", "2", ",", "0", "]", "]">>
\* 7,2,1,0,1,2: a bare list, the shape of pages 2 and 3
TextBare == <<"7", ",", "2", ",", "1", ",", "0", ",", "1", ",", "2">>
\* [5,6]: a plain array
TextPlain == <<"[", "5", ",", "6", "]">>
\* ]: no JSON at all
TextBad == <<"]">>

Texts == {TextPair, TextBare, TextPlain, TextBad}

\* "[[7],[0]]": a JSON string that holds the JSON text of a pair
TextQuoted == <<"\"", "[", "[", "7", "]", ",", "[", "0", "]", "]", "\"">>
\* [[7],\n  [0]]: a pair with the characters backslash, n and two spaces in it
TextEscaped == <<"[", "[", "7", "]", ",", "\\", "n", " ", " ", "[", "0", "]", "]">>
\* [[1  2],[0]]: a pair with two spaces inside a number
TextSpaced == <<"[", "[", "1", " ", " ", "2", "]", ",", "[", "0", "]", "]">>
\* {"a":[7,2],"b":[2,0]}: an object of two keys whose values are arrays
TextMapping ==
    <<"{", "\"", "a", "\"", ":", "[", "7", ",", "2", "]", ",",
      "\"", "b", "\"", ":", "[", "2", ",", "0", "]", "}">>

\* the response texts of the parsing specification
ParseTexts == Texts \cup {TextQuoted, TextEscaped, TextSpaced, TextMapping}

NoText == <<>>

\* an entry of the cache that holds no page array: the 0 of
\* Array(9).fill(0), a missing key of loadedPages
NotLoaded == <<>>

Ops == {"sat", "inscription"}

IdleCall ==
    [pc |-> "idle", op |-> "sat", d |-> 0, page |-> 0, ok |-> FALSE,
     text |-> NoText, got |-> NotLoaded, sat |-> Null, result |-> Null]

\* the inputs of the parsing specification: a page with a response text, or
\* a page with a pair of arrays already parsed and verified
NoInput ==
    [kind |-> "none", page |-> 0, text |-> NoText, deltas |-> <<>>, indices |-> <<>>]
NoOutput == [done |-> FALSE, ok |-> FALSE, page |-> <<>>]

\* a line of the console that handleOci prints: its template, its type, and
\* the district and the number put into the template
Said(template, type, d, n) == [template |-> template, type |-> type, d |-> d, n |-> n]

\* the OCI command: where it stands (pc), its subcommand and district, the
\* ociLoaded (and ociData) its closure holds, the loop of OCI LOAD (i,
\* count), how many commands were entered (n), and the lines it has printed
NoCommand ==
    [pc |-> "idle", sub |-> "STATUS", d |-> 0, seenLoaded |-> FALSE, i |-> 0,
     count |-> 0, n |-> 0, lines |-> <<>>]

VARIABLES
    impl,         \* "Home" or "part_001"; "part_000" where its decoders run
    pages,        \* Home.tsx: the array `pages`, NotLoaded for its 0 entries
    loadedPages,  \* part_001: the React state ociData.loadedPages
    closure,      \* part_001: ociData.loadedPages as the running command sees it
    call,         \* the calls of getBitmapSat / getBitmapInscriptionId
    fetches,      \* how many times each page URL was fetched
    stores,       \* how many times each page's entry of the cache was assigned
    failed,       \* the pages of which a load has failed
    lookups,      \* the /r/sat/<sat>/at/<index> requests issued
    ncalls,       \* calls started
    pin,          \* parsing and decoding specifications: the input
    pout,         \* parsing and decoding specifications: what is made of it
    ociLoaded,    \* the React state ociLoaded (Home.tsx: and ociData is set)
    command,      \* the OCI command that runs, or the last that ran
    isProcessing, \* the React state isProcessing
    baseUrl,      \* the React state baseUrl (currentMode is set along with it)
    ociData,      \* command line: what the React state ociData holds
    rendered,     \* the state as of the last render, which the handlers close over
    handler,      \* the command handler that each Enter key has started
    startup,      \* where the detection of the connectivity mode stands
    log           \* the base URLs set and the OCI requests sent, in order

vars ==
    <<impl, pages, loadedPages, closure, call, fetches, stores, failed, lookups,
      ncalls, pin, pout, ociLoaded, command, isProcessing, baseUrl, ociData,
      rendered, handler, startup, log>>

\* the state of the command line
terminalVars == <<isProcessing, baseUrl, ociData, rendered, handler, startup, log>>

\* the state of the OCI engine and of the parsing and decoding specifications
engineVars ==
    <<impl, pages, loadedPages, closure, call, fetches, stores, failed, lookups,
      ncalls, pin, pout, command>>

\* the number of Enter keys of a behaviour
MaxKeys == 3

Local == ""
Web == "https://ordinals.com"

\* ociData: whether it is set, the baseUrl that its functions close over
\* (Home.tsx), and whether it holds the page of the district asked for
NoOciData == [set |-> FALSE, baseUrl |-> Local, page |-> FALSE]

\* no handler was started for a key
NoHandler ==
    [pc |-> "idle", name |-> "", seen |-> [isProcessing |-> TRUE, baseUrl |-> Local,
                                          ociLoaded |-> FALSE, ociData |-> NoOciData]]

\* useState(true), useState(""), useState(null) / useState({loaded: false, ...}),
\* and the effect that starts the detection on mount
InitTerminal ==
    /\ isProcessing = TRUE
    /\ baseUrl = Local
    /\ ociData = NoOciData
    /\ rendered = [isProcessing |-> TRUE, baseUrl |-> Local, ociLoaded |-> FALSE,
                   ociData |-> NoOciData]
    /\ handler = [k \in 1 .. MaxKeys |-> NoHandler]
    /\ startup = [pc |-> IF impl = "Home" THEN "ord" ELSE "web", ord |-> FALSE,
                  timer |-> FALSE]
    /\ log = <<>>

Init ==
    /\ impl \in {"Home", "part_001"}
    /\ pages = [p \in Pages |-> NotLoaded]
    /\ loadedPages = [p \in Pages |-> NotLoaded]
    /\ closure = [p \in Pages |-> NotLoaded]
    /\ call = [c \in Callers |-> IdleCall]
    /\ fetches = [u \in Urls \cup {"undefined"} |-> 0]
    /\ stores = [p \in Pages |-> 0]
    /\ failed = {}
    /\ lookups = <<>>
    /\ ncalls = 0
    /\ pin = NoInput
    /\ pout = NoOutput
    /\ ociLoaded = FALSE
    /\ command = NoCommand
    /\ InitTerminal

\* the page cache a call of getBitmapSat reads
Seen == IF impl = "Home" THEN pages ELSE closure

\* the page cache as it stands
Cache == IF impl = "Home" THEN pages ELSE loadedPages

\* pages[page] / ociData.loadedPages[pageKey]: a page outside the table
\* reads as undefined, which is `not loaded` to the test that follows
SeenPage(page) == IF page \in Pages THEN Seen[page] ELSE NotLoaded

\* `${baseUrl}${allPages[page]}`
UrlOf(page) == IF page \in Pages THEN allPages[page + 1] ELSE "undefined"

Read(arr, d) == IF impl = "Home" THEN HomeRead(arr, d) ELSE Part001Read(arr, d)

\* getBitmapSat has returned sat to the call c, which issues the lookup:
\* `${baseUrl}/r/sat/${sat}/at/${getBitmapSatIndex(bitmapNumber)}`
Lookup(c, rec, sat) ==
    /\ call' = [call EXCEPT ![c] = [rec EXCEPT !.pc = "awaitLookup", !.sat = sat]]
    /\ lookups' = Append(lookups, [d |-> rec.d, sat |-> sat.v, at |-> getBitmapSatIndex(rec.d)])

\* the call c is over and returns result
Return(c, rec, sat, result) ==
    /\ call' = [call EXCEPT ![c] = [rec EXCEPT !.pc = "done", !.sat = sat, !.result = result]]
    /\ UNCHANGED lookups

\* a getBitmapInscriptionId without `if (!sat) return null`, as in the OCI
\* script of attached_assets
ReturnedUnchecked(c, rec, sat) ==
    IF rec.op = "sat" THEN Return(c, rec, sat, sat) ELSE Lookup(c, rec, sat)

\* getBitmapSat has returned sat to call c: a getBitmapSat call is over; a
\* getBitmapInscriptionId call returns null on a falsy sat (if (!sat) return
\* null) and otherwise fetches the inscription at its offset on the sat
Returned(c, rec, sat) ==
    IF rec.op = "sat" THEN Return(c, rec, sat, sat)
    ELSE IF Falsy(sat) THEN Return(c, rec, sat, Null)
    ELSE Lookup(c, rec, sat)

\* a getBitmapSat that remembers a failed load and gives up on the page
EnterOnce(c, rec) ==
    IF OutOfRange(rec.d) \/ rec.page \in failed
    THEN /\ Returned(c, rec, Null)
         /\ UNCHANGED fetches
    ELSE IF SeenPage(rec.page) # NotLoaded
    THEN /\ Returned(c, rec, Read(SeenPage(rec.page), rec.d))
         /\ UNCHANGED fetches
    ELSE /\ call' = [call EXCEPT ![c] = [rec EXCEPT !.pc = "awaitFetch"]]
         /\ fetches' = [fetches EXCEPT ![UrlOf(rec.page)] = @ + 1]
         /\ UNCHANGED lookups

\* getBitmapSat up to its first await: the range check, the page, and the
\* cached page or the fetch of the page
Enter(c, rec) ==
    IF OutOfRange(rec.d)
    THEN /\ Returned(c, rec, Null)
         /\ UNCHANGED fetches
    ELSE IF SeenPage(rec.page) # NotLoaded
    THEN /\ Returned(c, rec, Read(SeenPage(rec.page), rec.d))
         /\ UNCHANGED fetches
    ELSE /\ call' = [call EXCEPT ![c] = [rec EXCEPT !.pc = "awaitFetch"]]
         /\ fetches' = [fetches EXCEPT ![UrlOf(rec.page)] = @ + 1]
         /\ UNCHANGED lookups

\* a call of getBitmapSat(d) or getBitmapInscriptionId(d)
Call(c, op, d) ==
    /\ call[c].pc \in {"idle", "done"}
    /\ ncalls < MaxCalls
    /\ ncalls' = ncalls + 1
    /\ Enter(c, [IdleCall EXCEPT !.op = op, !.d = d, !.page = PageOf(d)])
    /\ UNCHANGED <<terminalVars, impl, ociLoaded, command, pages, loadedPages, closure, stores, failed, pin, pout>>

\* the page fetch settles: a response that is ok, or one that is not (or the
\* fetch rejects), which ends fillPage / loadDistrictPage with false / null
FetchSettles(c, ok) ==
    /\ call[c].pc = "awaitFetch"
    /\ call' = [call EXCEPT ![c].pc = IF ok THEN "awaitText" ELSE "filled",
                            ![c].ok = FALSE]
    /\ failed' = IF ok THEN failed ELSE failed \cup {call[c].page}
    /\ UNCHANGED <<terminalVars, impl, ociLoaded, command, pages, loadedPages, closure, fetches, stores, lookups,
                   ncalls, pin, pout>>

\* a fillPage that refuses a page that the cache holds already
FillOnce(page, text) ==
    IF page \in Pages /\ Cache[page] # NotLoaded THEN NoPage
    ELSE IF impl = "Home" THEN HomeFill(page, text) ELSE Part001Fill(page, text)

\* fillPage / loadDistrictPage from the response text
Fill(page, text) ==
    IF impl = "Home" THEN HomeFill(page, text) ELSE Part001Fill(page, text)

\* the end of fillPage / loadDistrictPage: a page array r.page is stored.
\* Home.tsx assigns pages[page]; part_001 sets the state to the closure's
\* loadedPages plus this page
Filled(c, page, r) ==
    /\ IF r.ok /\ impl = "Home" /\ page \in Pages
       THEN pages' = [pages EXCEPT ![page] = r.page]
       ELSE UNCHANGED pages
    /\ IF r.ok /\ impl = "part_001" /\ page \in Pages
       THEN loadedPages' = [closure EXCEPT ![page] = r.page]
       ELSE UNCHANGED loadedPages
    /\ IF r.ok /\ page \in Pages
       THEN stores' = [stores EXCEPT ![page] = @ + 1]
       ELSE UNCHANGED stores
    /\ failed' = IF r.ok THEN failed ELSE failed \cup {page}

\* response.text() settles with the text: the page is parsed and, when the
\* parse succeeds, stored
TextArrives(c, text) ==
    /\ call[c].pc = "awaitText"
    /\ call' = [call EXCEPT ![c].pc = "filled", ![c].text = text,
                            ![c].ok = Fill(call[c].page, text).ok,
                            ![c].got = Fill(call[c].page, text).page]
    /\ Filled(c, call[c].page, Fill(call[c].page, text))
    /\ UNCHANGED <<terminalVars, impl, ociLoaded, command, closure, fetches, lookups, ncalls, pin, pout>>

\* getBitmapSat after `await fillPage(page)` / `await loadDistrictPage(page)`:
\* null when the load failed, otherwise the slot of the page as it is now
AfterFill(c, rec) ==
    IF ~rec.ok THEN Returned(c, rec, Null)
    ELSE IF SeenPage(rec.page) = NotLoaded THEN Returned(c, rec, Null)
    ELSE Returned(c, rec, Read(SeenPage(rec.page), rec.d))

Resume(c) ==
    /\ call[c].pc = "filled"
    /\ AfterFill(c, call[c])
    /\ UNCHANGED <<terminalVars, impl, ociLoaded, command, pages, loadedPages, closure, fetches, stores, failed,
                   ncalls, pin, pout>>

\* the lookup fetch settles: not ok (or rejected) returns null
LookupSettles(c, ok) ==
    /\ call[c].pc = "awaitLookup"
    /\ call' = [call EXCEPT ![c].pc = IF ok THEN "awaitJson" ELSE "done",
                            ![c].result = Null]
    /\ UNCHANGED <<terminalVars, impl, ociLoaded, command, pages, loadedPages, closure, fetches, stores, failed,
                   lookups, ncalls, pin, pout>>

\* the inscription id the server reports for a sat
IdOn(sat) == [t |-> "id", v |-> sat.v]

\* response.json() settles: data.id is returned, or null when it throws
JsonArrives(c, ok) ==
    /\ call[c].pc = "awaitJson"
    /\ call' = [call EXCEPT ![c].pc = "done",
                            ![c].result = IF ok THEN IdOn(call[c].sat) ELSE Null]
    /\ UNCHANGED <<terminalVars, impl, ociLoaded, command, pages, loadedPages, closure, fetches, stores, failed,
                   lookups, ncalls, pin, pout>>

\* part_001: the component renders again between two commands, and the next
\* command's functions close over the current ociData
Render ==
    /\ impl = "part_001"
    /\ \A c \in Callers : call[c].pc \in {"idle", "done"}
    /\ closure # loadedPages
    /\ closure' = loadedPages
    /\ UNCHANGED <<terminalVars, impl, ociLoaded, command, pages, loadedPages, call, fetches, stores, failed,
                   lookups, ncalls, pin, pout>>

Next ==
    \/ \E c \in Callers, op \in Ops, d \in Districts : Call(c, op, d)
    \/ \E c \in Callers, ok \in BOOLEAN : FetchSettles(c, ok)
    \/ \E c \in Callers, text \in Texts : TextArrives(c, text)
    \/ \E c \in Callers : Resume(c)
    \/ \E c \in Callers, ok \in BOOLEAN : LookupSettles(c, ok)
    \/ \E c \in Callers, ok \in BOOLEAN : JsonArrives(c, ok)
    \/ Render

Spec == Init /\ [][Next]_vars

(***************************************************************************)
(* The parsing specification: the rebuilding and the parsing of a page,    *)
(* applied to inputs drawn from bounded sets.                              *)
(***************************************************************************)
\* the deltas and the indices of the pairs: sequences of JSON numbers
DeltaValues == {1, 5}
IndexValues == 0 .. PageSize
MaxDeltas == 3
MaxIndices == 3

SeqsUpTo(S, n) == UNION {[1 .. k -> S] : k \in 0 .. n}

NumSeq(xs) == [i \in 1 .. Len(xs) |-> Num(xs[i])]

PairInputs ==
    {[kind |-> "pair", page |-> 4, text |-> NoText, deltas |-> NumSeq(ds), indices |-> NumSeq(is)] :
        ds \in SeqsUpTo(DeltaValues, MaxDeltas), is \in SeqsUpTo(IndexValues, MaxIndices)}

TextInputs ==
    {[kind |-> "text", page |-> p, text |-> t, deltas |-> <<>>, indices |-> <<>>] :
        p \in Pages, t \in ParseTexts}

InitParse ==
    /\ impl \in {"Home", "part_001"}
    /\ pages = [p \in Pages |-> NotLoaded]
    /\ loadedPages = [p \in Pages |-> NotLoaded]
    /\ closure = [p \in Pages |-> NotLoaded]
    /\ call = [c \in Callers |-> IdleCall]
    /\ fetches = [u \in Urls \cup {"undefined"} |-> 0]
    /\ stores = [p \in Pages |-> 0]
    /\ failed = {}
    /\ lookups = <<>>
    /\ ncalls = 0
    /\ pin \in PairInputs \cup TextInputs
    /\ pout = NoOutput
    /\ ociLoaded = FALSE
    /\ command = NoCommand
    /\ InitTerminal

\* the page array built from a verified pair: the two forEach loops
RebuildPair ==
    /\ pin.kind = "pair"
    /\ ~pout.done
    /\ pout' = [done |-> TRUE, ok |-> TRUE,
                page |-> IF impl = "Home" THEN Rebuild(pin.deltas, pin.indices)
                         ELSE GuardedRebuild(pin.deltas, pin.indices)]
    /\ UNCHANGED <<terminalVars, impl, ociLoaded, command, pages, loadedPages, closure, call, fetches, stores, failed,
                   lookups, ncalls, pin>>

Done(r) == [done |-> TRUE, ok |-> r.ok, page |-> r.page]

\* fillPage / loadDistrictPage on a response text
ParseText ==
    /\ pin.kind = "text"
    /\ ~pout.done
    /\ pout' = Done(Fill(pin.page, pin.text))
    /\ UNCHANGED <<terminalVars, impl, ociLoaded, command, pages, loadedPages, closure, call, fetches, stores, failed,
                   lookups, ncalls, pin>>

NextParse == RebuildPair \/ ParseText

SpecParse == InitParse /\ [][NextParse]_vars
(***************************************************************************)
(* part_000: decodeCBOR.  A buffer is a sequence of bytes; a string is the *)
(* sequence of its character codes.  The cursor `position` is a number     *)
(* from 0, or NaN once an undefined length was added to it.                *)
(***************************************************************************)
Bool(b) == [t |-> "bool", v |-> b]

\* a number of 2^32 or more: hi * 2^32 + lo, or -1 - (hi * 2^32 + lo)
Wide(hi, lo) == [t |-> "wide", v |-> <<hi, lo>>, neg |-> FALSE]
Negated(w) == [w EXCEPT !.neg = TRUE]

\* the value of new Float32Array(slice)[0] / new Float64Array(slice)[0],
\* kept as the bytes it is read from
Float(bs) == [t |-> "float", v |-> bs]

\* position when it is NaN
NaNPos == -1

\* a byte read past the end of the buffer: undefined
NoByte == -1

\* a step of the decoder: the value decoded, the position after it, and
\* whether an exception was thrown instead
Got(val, pos) == [thrown |-> FALSE, val |-> val, pos |-> pos]
Throws(pos) == [thrown |-> TRUE, val |-> Undefined, pos |-> pos]

\* bytes[position]
ByteAt(bytes, pos) ==
    IF pos # NaNPos /\ pos < Len(bytes) THEN bytes[pos + 1] ELSE NoByte

\* position++ and position += n
Advance(pos, n) == IF pos = NaNPos THEN NaNPos ELSE pos + n

\* an operand of << and |: undefined counts as 0
Bits(b) == IF b = NoByte THEN 0 ELSE b

\* the two bytes taken low byte first
Int16LE(b1, b2) == Bits(b2) * 256 + Bits(b1)

\* (b1 << 8) | b2
Int16(b1, b2) == Bits(b1) * 256 + Bits(b2)

\* (b1 << 24) | (b2 << 16) | (b3 << 8) | b4, a signed 32-bit integer
Int32(b1, b2, b3, b4) ==
    (IF Bits(b1) >= 128 THEN Bits(b1) - 256 ELSE Bits(b1)) * 16777216
        + Bits(b2) * 65536 + Bits(b3) * 256 + Bits(b4)

Int32At(bytes, pos) ==
    Int32(ByteAt(bytes, pos), ByteAt(bytes, Advance(pos, 1)),
          ByteAt(bytes, Advance(pos, 2)), ByteAt(bytes, Advance(pos, 3)))

\* hi * Math.pow(2, 32) + lo
Int64(hi, lo) == IF hi = 0 THEN Num(lo) ELSE Wide(hi, lo)

\* the byte returned by readByte() as a value
ByteValue(b) == IF b = NoByte THEN Undefined ELSE Num(b)

\* readLength(initialByte), with position after the initial byte
readLength(bytes, pos, additionalInfo) ==
    IF additionalInfo < 24 THEN Got(Num(additionalInfo), pos)
    ELSE IF additionalInfo = 24
    THEN Got(ByteValue(ByteAt(bytes, pos)), Advance(pos, 1))
    ELSE IF additionalInfo = 25
    THEN Got(Num(Int16(ByteAt(bytes, pos), ByteAt(bytes, Advance(pos, 1)))),
             Advance(pos, 2))
    ELSE IF additionalInfo = 26
    THEN Got(Num(Int32At(bytes, pos)), Advance(pos, 4))
    ELSE IF additionalInfo = 27
    THEN Got(Int64(Int32At(bytes, pos), Int32At(bytes, Advance(pos, 4))),
             Advance(pos, 8))
    ELSE Throws(pos)

\* the index a relative index of slice stands for
Clamp(i, n) == IF i < 0 THEN (IF n + i < 0 THEN 0 ELSE n + i) ELSE IF i > n THEN n ELSE i

\* bytes.slice(a, b)
SliceBytes(bytes, a, b) ==
    SubSeq(bytes, Clamp(a, Len(bytes)) + 1, Clamp(b, Len(bytes)))

\* the end of the slice that readByteString(length) takes: position + length
\* is NaN, which slice reads as 0, when either is no number
SliceFrom(pos) == IF pos = NaNPos THEN 0 ELSE pos
SliceEnd(pos, length) ==
    IF pos = NaNPos \/ ~IsNum(length) THEN 0 ELSE pos + length.v

\* readByteString(length): the bytes
ByteString(bytes, pos, length) ==
    SliceBytes(bytes, SliceFrom(pos), SliceEnd(pos, length))

\* readByteString(length): position += length
PastString(pos, length) ==
    IF IsNum(length) THEN Advance(pos, length.v) ELSE NaNPos

HexDigits ==
    <<48, 49, 50, 51, 52, 53, 54, 55, 56, 57, 97, 98, 99, 100, 101, 102>>

\* byte.toString(16).padStart(2, '0'), joined
RECURSIVE HexOf(_)
HexOf(bs) ==
    IF bs = <<>> THEN <<>>
    ELSE <<HexDigits[(bs[1] \div 16) + 1], HexDigits[(bs[1] % 16) + 1]>> \o HexOf(Tail(bs))

\* new TextDecoder().decode(bytes), for buffers that hold no well-formed
\* multi-byte sequence: a byte below 128 is its character, any other byte
\* decodes to U+FFFD
Utf8(bs) == [i \in 1 .. Len(bs) |-> IF bs[i] < 128 THEN bs[i] ELSE 65533]

\* the decimal digits of a number that is not negative
RECURSIVE DigitsOf(_)
DigitsOf(n) == IF n < 10 THEN <<48 + n>> ELSE DigitsOf(n \div 10) \o <<48 + (n % 10)>>

\* the last decimal digit of a negative number
LastDigit(n) == (10 - (n % 10)) % 10

\* the decimal digits of a negative number, without its sign
RECURSIVE NegDigits(_)
NegDigits(n) ==
    IF n > -10 THEN <<48 - n>>
    ELSE NegDigits((n + LastDigit(n)) \div 10) \o <<48 + LastDigit(n)>>

\* String(n) of an integer
NumberText(n) == IF n < 0 THEN <<45>> \o NegDigits(n) ELSE DigitsOf(n)

TextTrue == <<116, 114, 117, 101>>
TextFalse == <<102, 97, 108, 115, 101>>
TextNaN == <<78, 97, 78>>
TextObject == <<91, 111, 98, 106, 101, 99, 116, 32, 79, 98, 106, 101, 99, 116, 93>>
TextTag == <<116, 97, 103>>
TextValue == <<118, 97, 108, 117, 101>>
TextFloat16 == <<70, 76, 79, 65, 84, 49, 54, 95, 85, 78, 83, 85, 80, 80, 79, 82, 84, 69, 68>>

\* key.toString() of a decoded key; the text of a number past 2^32 and of a
\* float is kept as the number, behind a code that no character has
RECURSIVE KeyText(_)
RECURSIVE JoinTexts(_)
KeyText(v) ==
    CASE v.t = "num" -> NumberText(v.v)
      [] v.t = "str" -> v.v
      [] v.t = "bool" -> IF v.v THEN TextTrue ELSE TextFalse
      [] v.t = "nan" -> TextNaN
      [] v.t = "arr" -> JoinTexts(v.v)
      [] v.t = "obj" -> TextObject
      [] v.t = "wide" -> <<IF v.neg THEN -2 ELSE -1>> \o v.v
      [] v.t = "float" -> <<-3>> \o v.v
      [] OTHER -> <<>>

\* array.toString(): the elements joined by commas, null and undefined
\* elements as the empty text
JoinTexts(xs) ==
    IF xs = <<>> THEN <<>>
    ELSE IF Len(xs) = 1 THEN KeyText(xs[1])
    ELSE KeyText(xs[1]) \o <<44>> \o JoinTexts(Tail(xs))

\* key.toString() throws a TypeError on null and on undefined
NoKey(v) == v.t \in {"null", "undef"}

\* the first position of kvs that holds key k, 0 when none does
RECURSIVE KeyPlace(_, _, _)
KeyPlace(kvs, k, n) ==
    IF n = 0 THEN 0
    ELSE IF kvs[n][1] = k /\ KeyPlace(kvs, k, n - 1) = 0 THEN n
    ELSE KeyPlace(kvs, k, n - 1)

\* map[key] = value
MapPut(kvs, k, x) ==
    IF KeyPlace(kvs, k, Len(kvs)) = 0 THEN Append(kvs, <<k, x>>)
    ELSE [kvs EXCEPT ![KeyPlace(kvs, k, Len(kvs))] = <<k, x>>]

\* -1 - length
MinusOneMinus(length) ==
    CASE length.t = "num" -> Num(-1 - length.v)
      [] length.t = "wide" -> Negated(length)
      [] OTHER -> NaN

\* new Float32Array(bytes.buffer.slice(position, position + size))[0] and
\* position += size: a slice whose length is no multiple of size throws a
\* RangeError, an empty one gives undefined
FloatOf(slice, pos, size) ==
    IF Len(slice) % size # 0 THEN Throws(pos)
    ELSE IF slice = <<>> THEN Got(Undefined, Advance(pos, size))
    ELSE Got(Float(slice), Advance(pos, size))

FloatAt(bytes, pos, size) ==
    FloatOf(SliceBytes(bytes, SliceFrom(pos), SliceEnd(pos, Num(size))), pos, size)

\* case CBOR_TYPES.SIMPLE_AND_FLOAT
Simple(bytes, pos, length) ==
    IF length = Num(20) THEN Got(Bool(FALSE), pos)
    ELSE IF length = Num(21) THEN Got(Bool(TRUE), pos)
    ELSE IF length = Num(22) THEN Got(Null, pos)
    ELSE IF length = Num(23) THEN Got(Undefined, pos)
    ELSE IF length = Num(25) THEN Got(Str(TextFloat16), pos)
    ELSE IF length = Num(26) THEN FloatAt(bytes, pos, 4)
    ELSE IF length = Num(27) THEN FloatAt(bytes, pos, 8)
    ELSE Got(length, pos)

\* the turns of the loops `for (let i = 0; i < length; i++)`: none when
\* length is undefined
Count(length) == IF IsNum(length) THEN length.v ELSE 0

RECURSIVE decode(_, _)
RECURSIVE DecodeItems(_, _, _, _)
RECURSIVE DecodePairs(_, _, _, _)

\* array.push(decode())
NextItem(bytes, r, n, acc) ==
    IF r.thrown THEN r ELSE DecodeItems(bytes, r.pos, n - 1, Append(acc, r.val))

DecodeItems(bytes, pos, n, acc) ==
    IF n <= 0 THEN Got(Arr(acc), pos)
    ELSE NextItem(bytes, decode(bytes, pos), n, acc)

\* map[key.toString()] = decode()
PairValue(bytes, key, r, n, kvs) ==
    IF r.thrown THEN r
    ELSE DecodePairs(bytes, r.pos, n - 1, MapPut(kvs, KeyText(key), r.val))

PairKey(bytes, r, n, kvs) ==
    IF r.thrown THEN r
    ELSE IF NoKey(r.val) THEN Throws(r.pos)
    ELSE PairValue(bytes, r.val, decode(bytes, r.pos), n, kvs)

DecodePairs(bytes, pos, n, kvs) ==
    IF n <= 0 THEN Got(Obj(kvs), pos)
    ELSE PairKey(bytes, decode(bytes, pos), n, kvs)

\* { tag: length, value: decode() }
Tagged(length, r) ==
    IF r.thrown THEN r
    ELSE Got(Obj(<<(<<TextTag, length>>), (<<TextValue, r.val>>)>>), r.pos)

\* the loop of an array or a map whose length is 2^32 or more does not end
\* within the memory of the page
Endless(length) == length.t = "wide"

\* switch (majorType)
Switch(bytes, majorType, length, pos) ==
    CASE majorType = 0 -> Got(length, pos)
      [] majorType = 1 -> Got(MinusOneMinus(length), pos)
      [] majorType = 2 ->
            Got(Str(HexOf(ByteString(bytes, pos, length))), PastString(pos, length))
      [] majorType = 3 ->
            Got(Str(Utf8(ByteString(bytes, pos, length))), PastString(pos, length))
      [] majorType = 4 ->
            IF Endless(length) THEN Throws(pos)
            ELSE DecodeItems(bytes, pos, Count(length), <<>>)
      [] majorType = 5 ->
            IF Endless(length) THEN Throws(pos)
            ELSE DecodePairs(bytes, pos, Count(length), <<>>)
      [] majorType = 6 -> Tagged(length, decode(bytes, pos))
      [] OTHER -> Simple(bytes, pos, length)

WithLength(bytes, majorType, r) ==
    IF r.thrown THEN r ELSE Switch(bytes, majorType, r.val, r.pos)

\* initialByte >> 5 and initialByte & 0x1f
MajorType(initialByte) == Bits(initialByte) \div 32
AdditionalInfo(initialByte) == Bits(initialByte) % 32

Decoded(bytes, initialByte, pos) ==
    WithLength(bytes, MajorType(initialByte),
               readLength(bytes, pos, AdditionalInfo(initialByte)))

\* decode(): the initial byte, its length, and the value of its major type
decode(bytes, pos) == Decoded(bytes, ByteAt(bytes, pos), Advance(pos, 1))

\* decodeCBOR(buffer)
decodeCBOR(bytes) == decode(bytes, 0)

(***************************************************************************)
(* The decoding specification: decodeCBOR applied to buffers drawn from a  *)
(* bounded set, and to the encodings of value trees.                       *)
(***************************************************************************)
\* a value tree and its encoding (RFC 8949, shortest argument)
UInt(n) == [k |-> "uint", n |-> n]
NInt(n) == [k |-> "nint", n |-> n]
Text(cs) == [k |-> "text", cs |-> cs]
List(xs) == [k |-> "array", xs |-> xs]
Dict(kvs) == [k |-> "map", kvs |-> kvs]
Tag(n, x) == [k |-> "tag", n |-> n, x |-> x]
Flag(b) == [k |-> "bool", b |-> b]
Nil == [k |-> "null"]
\* major type 7 with an argument of 1, 2, 4 or 8 bytes
Arg7(bs) == [k |-> "arg7", bs |-> bs]
\* an integer of major type m (0 or 1) with the argument bytes bs
ArgOf(m, bs) == [k |-> "arg", m |-> m, bs |-> bs]

\* the header of major type m with argument n
Header(m, n) ==
    IF n < 24 THEN <<m * 32 + n>>
    ELSE IF n < 256 THEN <<m * 32 + 24, n>>
    ELSE IF n < 65536 THEN <<m * 32 + 25, n \div 256, n % 256>>
    ELSE <<m * 32 + 26, n \div 16777216, (n \div 65536) % 256, (n \div 256) % 256, n % 256>>

\* the additional information that announces an argument of n bytes
InfoOf(n) == IF n = 1 THEN 24 ELSE IF n = 2 THEN 25 ELSE IF n = 4 THEN 26 ELSE 27

RECURSIVE Encode(_)
RECURSIVE EncodeAll(_)
RECURSIVE EncodePairs(_)
Encode(x) ==
    CASE x.k = "uint" -> Header(0, x.n)
      [] x.k = "nint" -> Header(1, -1 - x.n)
      [] x.k = "text" -> Header(3, Len(x.cs)) \o x.cs
      [] x.k = "array" -> Header(4, Len(x.xs)) \o EncodeAll(x.xs)
      [] x.k = "map" -> Header(5, Len(x.kvs)) \o EncodePairs(x.kvs)
      [] x.k = "tag" -> Header(6, x.n) \o Encode(x.x)
      [] x.k = "bool" -> <<IF x.b THEN 245 ELSE 244>>
      [] x.k = "null" -> <<246>>
      [] x.k = "arg7" -> <<224 + InfoOf(Len(x.bs))>> \o x.bs
      [] x.k = "arg" -> <<x.m * 32 + InfoOf(Len(x.bs))>> \o x.bs

EncodeAll(xs) == IF xs = <<>> THEN <<>> ELSE Encode(xs[1]) \o EncodeAll(Tail(xs))

EncodePairs(kvs) ==
    IF kvs = <<>> THEN <<>>
    ELSE Encode(kvs[1][1]) \o Encode(kvs[1][2]) \o EncodePairs(Tail(kvs))

\* the value a tree stands for: a map is an object keyed by the texts of its
\* keys, a tagged value an object with its tag and its value
RECURSIVE ValueOf(_)
RECURSIVE ValuesOfAll(_)
RECURSIVE ValuesOfPairs(_)
ValueOf(x) ==
    CASE x.k = "uint" -> Num(x.n)
      [] x.k = "nint" -> Num(x.n)
      [] x.k = "text" -> Str(x.cs)
      [] x.k = "array" -> Arr(ValuesOfAll(x.xs))
      [] x.k = "map" -> Obj(ValuesOfPairs(x.kvs))
      [] x.k = "tag" -> Obj(<<(<<TextTag, Num(x.n)>>), (<<TextValue, ValueOf(x.x)>>)>>)
      [] x.k = "bool" -> Bool(x.b)
      [] x.k = "null" -> Null
      [] OTHER -> Undefined

ValuesOfAll(xs) == [i \in 1 .. Len(xs) |-> ValueOf(xs[i])]

ValuesOfPairs(kvs) == [i \in 1 .. Len(kvs) |-> <<kvs[i][1].cs, ValueOf(kvs[i][2])>>]

\* the trees of the round trip: unsigned 0, 1, 23, 24, 1000; negative -1,
\* -24; a text of 3 bytes; an array of 2; a map of 2 keys; a tagged value;
\* true, false; null
Fixtures ==
    {UInt(0), UInt(1), UInt(23), UInt(24), UInt(1000), NInt(-1), NInt(-24),
     Text(<<97, 98, 99>>), List(<<UInt(1), Text(<<97>>)>>),
     Dict(<<(<<Text(<<97>>), UInt(1)>>), (<<Text(<<98>>), NInt(-1)>>)>>),
     Tag(1, Text(<<97>>)), Flag(TRUE), Flag(FALSE), Nil}

\* major type 7 with argument bytes of every size, among them the values
\* 26 and 27
Arguments ==
    {Arg7(<<1>>), Arg7(<<26>>), Arg7(<<32>>), Arg7(<<60, 0>>), Arg7(<<0, 25>>),
     Arg7(<<0, 26>>), Arg7(<<63, 128, 0, 0>>), Arg7(<<0, 0, 0, 27>>),
     Arg7(<<63, 240, 0, 0, 0, 0, 0, 0>>), Arg7(<<0, 0, 0, 0, 0, 0, 0, 26>>),
     List(<<Arg7(<<26>>), UInt(1)>>)}

\* the argument bytes of the integers: 1, 2, 4 and 8 bytes, below 2^31 and
\* from 2^31 on
ArgumentBytes ==
    {<<200>>, <<1, 0>>, <<255, 255>>, <<0, 1, 0, 0>>, <<127, 255, 255, 255>>,
     <<128, 0, 0, 0>>, <<255, 255, 255, 255>>, <<0, 0, 0, 0, 0, 1, 0, 0>>,
     <<0, 0, 0, 1, 0, 0, 0, 2>>, <<0, 0, 0, 0, 128, 0, 0, 0>>,
     <<128, 0, 0, 0, 0, 0, 0, 0>>}

IntegerArguments == {ArgOf(m, bs) : m \in {0, 1}, bs \in ArgumentBytes}

\* the bytes that follow an encoded value in its buffer
Trailers == {<<>>, <<1>>, <<1, 2, 3, 4>>}

\* the bytes of the raw buffers: one header of every major type, the
\* argument sizes, an additional information that is not supported, and of
\* major type 7 null, undefined, and the additional information 24, 26, 28
ByteAlphabet ==
    {0, 1, 24, 26, 27, 28, 65, 97, 130, 161, 193, 246, 247, 248, 250, 252}
MaxBytes == 3

NoTree == [k |-> "none"]

TreeInputs ==
    {[kind |-> "tree", tree |-> x, trailer |-> tr, bytes |-> <<>>, ready |-> FALSE] :
        x \in Fixtures \cup Arguments \cup IntegerArguments, tr \in Trailers}

RawInputs ==
    {[kind |-> "bytes", tree |-> NoTree, trailer |-> <<>>, bytes |-> bs, ready |-> TRUE] :
        bs \in SeqsUpTo(ByteAlphabet, MaxBytes)}

NoDecode == [done |-> FALSE, thrown |-> FALSE, val |-> Undefined, pos |-> 0]

InitCbor ==
    /\ impl = "part_000"
    /\ pages = [p \in Pages |-> NotLoaded]
    /\ loadedPages = [p \in Pages |-> NotLoaded]
    /\ closure = [p \in Pages |-> NotLoaded]
    /\ call = [c \in Callers |-> IdleCall]
    /\ fetches = [u \in Urls \cup {"undefined"} |-> 0]
    /\ stores = [p \in Pages |-> 0]
    /\ failed = {}
    /\ lookups = <<>>
    /\ ncalls = 0
    /\ pin \in TreeInputs \cup RawInputs
    /\ pout = NoDecode
    /\ ociLoaded = FALSE
    /\ command = NoCommand
    /\ InitTerminal

\* the buffer of a tree: its encoding and the bytes after it
EncodeTree ==
    /\ pin.kind = "tree"
    /\ ~pin.ready
    /\ pin' = [pin EXCEPT !.bytes = Encode(pin.tree) \o pin.trailer, !.ready = TRUE]
    /\ UNCHANGED <<terminalVars, impl, ociLoaded, command, pages, loadedPages, closure, call, fetches, stores, failed,
                   lookups, ncalls, pout>>

Finished(r) == [done |-> TRUE, thrown |-> r.thrown, val |-> r.val, pos |-> r.pos]

\* decodeCBOR(buffer)
DecodeBuffer ==
    /\ pin.kind \in {"tree", "bytes"}
    /\ pin.ready
    /\ ~pout.done
    /\ pout' = Finished(decodeCBOR(pin.bytes))
    /\ UNCHANGED <<terminalVars, impl, ociLoaded, command, pages, loadedPages, closure, call, fetches, stores, failed,
                   lookups, ncalls, pin>>

NextCbor == EncodeTree \/ DecodeBuffer

SpecCbor == InitCbor /\ [][NextCbor]_vars

(***************************************************************************)
(* part_000: hexToText, decodeMetadata and the metadata step of the        *)
(* INSCRIPTION command; Home.tsx: the metadata step it has instead.  A     *)
(* line of the console is the template it is printed from, the text put    *)
(* into the template, and the type of the line.                            *)
(***************************************************************************)
\* the value of a hexadecimal digit
HexVal(c) ==
    IF c \in 48 .. 57 THEN c - 48
    ELSE IF c \in 97 .. 102 THEN c - 87
    ELSE c - 55

IsHexDigit(c) == c \in (48 .. 57) \cup (97 .. 102) \cup (65 .. 70)

\* parseInt(pair, 16) of one or two hexadecimal digits
ParseHex(pair) ==
    IF Len(pair) = 1 THEN HexVal(pair[1]) ELSE 16 * HexVal(pair[1]) + HexVal(pair[2])

\* hex.substr(i, 2)
Substr2(hex) == SubSeq(hex, 1, IF Len(hex) < 2 THEN Len(hex) ELSE 2)

\* String.fromCharCode(hexValue) of a printable code, else \x and the pair
HexChar(pair) ==
    IF ParseHex(pair) >= 32 /\ ParseHex(pair) <= 126 THEN <<ParseHex(pair)>>
    ELSE <<92, 120>> \o pair

\* hexToText(hex)
RECURSIVE hexToText(_)
hexToText(hex) ==
    IF hex = <<>> THEN <<>>
    ELSE HexChar(Substr2(hex)) \o hexToText(SubSeq(hex, Len(Substr2(hex)) + 1, Len(hex)))

\* text.startsWith('"') && text.endsWith('"')
IsQuoted(text) == text # <<>> /\ text[1] = 34 /\ text[Len(text)] = 34

\* text.substring(a, b): the two indices are swapped when a > b
Substring(text, a, b) == SubSeq(text, (IF a < b THEN a ELSE b) + 1, IF a < b THEN b ELSE a)

\* text.substring(1, text.length - 1)
Unquoted(text) == Substring(text, 1, Len(text) - 1)

\* /^[0-9a-fA-F]+$/.test(s)
IsHexString(s) == s # <<>> /\ \A i \in 1 .. Len(s) : IsHexDigit(s[i])

\* the characters JSON.stringify writes for one character of a string
EscapedChar(c) ==
    CASE c = 34 -> <<92, 34>>
      [] c = 92 -> <<92, 92>>
      [] c = 8 -> <<92, 98>>
      [] c = 9 -> <<92, 116>>
      [] c = 10 -> <<92, 110>>
      [] c = 12 -> <<92, 102>>
      [] c = 13 -> <<92, 114>>
      [] c \in 0 .. 31 -> <<92, 117, 48, 48>> \o HexOf(<<c>>)
      [] OTHER -> <<c>>

RECURSIVE Escaped(_)
Escaped(cs) == IF cs = <<>> THEN <<>> ELSE EscapedChar(cs[1]) \o Escaped(Tail(cs))

\* a string as JSON.stringify writes it
QuotedText(cs) == <<34>> \o Escaped(cs) \o <<34>>

TextNull == <<110, 117, 108, 108>>
TextUndefined == <<117, 110, 100, 101, 102, 105, 110, 101, 100>>
TextString == <<115, 116, 114, 105, 110, 103>>

Spaces(n) == [i \in 1 .. n |-> 32]

\* a key that is an array index: 0, or digits with no leading zero
IsIndexCodes(k) ==
    /\ k # <<>>
    /\ \A i \in 1 .. Len(k) : k[i] \in 48 .. 57
    /\ (Len(k) > 1 => k[1] # 48)

RECURSIVE IndexOfCodes(_, _)
IndexOfCodes(k, acc) ==
    IF k = <<>> THEN acc ELSE IndexOfCodes(Tail(k), 10 * acc + (k[1] - 48))

LeastIndex(ms) ==
    CHOOSE m \in ms : \A o \in ms : IndexOfCodes(m[1], 0) <= IndexOfCodes(o[1], 0)

RECURSIVE SortedIndexMembers(_)
SortedIndexMembers(ms) ==
    IF ms = {} THEN <<>>
    ELSE <<LeastIndex(ms)>> \o SortedIndexMembers(ms \ {LeastIndex(ms)})

HasIndexKey(m) == IsIndexCodes(m[1])
HasNameKey(m) == ~IsIndexCodes(m[1])
IsDefined(m) == m[2] # Undefined

\* the own properties of an object in the order JSON.stringify visits them:
\* index keys ascending, then the others as inserted
OwnMembers(kvs) ==
    SortedIndexMembers({kvs[i] : i \in {j \in 1 .. Len(kvs) : HasIndexKey(kvs[j])}})
        \o SelectSeq(kvs, HasNameKey)

RECURSIVE Stringify(_, _)
RECURSIVE StringifyItems(_, _)
RECURSIVE StringifyMembers(_, _)

\* the elements of an array, one to a line
StringifyItems(xs, indent) ==
    IF Len(xs) = 1 THEN Spaces(indent) \o Stringify(xs[1], indent)
    ELSE Spaces(indent) \o Stringify(xs[1], indent) \o <<44, 10>>
             \o StringifyItems(Tail(xs), indent)

\* the members of an object, one to a line
StringifyMembers(ms, indent) ==
    IF Len(ms) = 1
    THEN Spaces(indent) \o QuotedText(ms[1][1]) \o <<58, 32>> \o Stringify(ms[1][2], indent)
    ELSE Spaces(indent) \o QuotedText(ms[1][1]) \o <<58, 32>> \o Stringify(ms[1][2], indent)
             \o <<44, 10>> \o StringifyMembers(Tail(ms), indent)

\* JSON.stringify(v, null, 2) of a value inside indent spaces; a number of
\* 2^32 or more and a float are kept as in KeyText
Stringify(v, indent) ==
    CASE v.t = "num" -> NumberText(v.v)
      [] v.t = "str" -> QuotedText(v.v)
      [] v.t = "bool" -> IF v.v THEN TextTrue ELSE TextFalse
      [] v.t = "arr" ->
            IF v.v = <<>> THEN <<91, 93>>
            ELSE <<91, 10>> \o StringifyItems(v.v, indent + 2) \o <<10>>
                     \o Spaces(indent) \o <<93>>
      [] v.t = "obj" ->
            IF SelectSeq(v.v, IsDefined) = <<>> THEN <<123, 125>>
            ELSE <<123, 10>>
                     \o StringifyMembers(SelectSeq(OwnMembers(v.v), IsDefined), indent + 2)
                     \o <<10>> \o Spaces(indent) \o <<125>>
      [] v.t \in {"wide", "float"} -> KeyText(v)
      [] OTHER -> TextNull

\* JSON.stringify(decoded, null, 2): undefined has no JSON text
JSONstringify(v) == IF v = Undefined THEN Undefined ELSE Str(Stringify(v, 0))

\* the catch of decodeMetadata: the bytes in hexadecimal
Stringified(r, bytes) == IF r.thrown THEN Str(HexOf(bytes)) ELSE JSONstringify(r.val)

\* decodeMetadata(buffer) of an ArrayBuffer
decodeMetadata(bytes) == Stringified(decodeCBOR(bytes), bytes)

\* a line of the console
Line(template, text, type) == [template |-> template, text |-> text, type |-> type]

\* `Value: ${decodedMetadata} (${typeof decodedMetadata})`
ValueText(d) ==
    IF d = Undefined THEN TextUndefined \o <<32, 40>> \o TextUndefined \o <<41>>
    ELSE d.v \o <<32, 40>> \o TextString \o <<41>>

\* typeof decodedMetadata === 'object' holds of no string and not of
\* undefined: the line is always the Value one
ValueLine(d) == Line("Value: ", ValueText(d), "json")

NoMetadata == "No metadata available for this inscription"
AllNoMetadata == "METADATA: No metadata available for this inscription"

\* what a metadata step has printed, and the strategies it tried, in order:
\* "hex" the quoted hexadecimal text, "binary" decodeMetadata, "json"
\* JSON.parse, "text" the text as it is
Shown(lines, tried) == [done |-> TRUE, lines |-> lines, tried |-> tried]

\* case "METADATA" of part_000 on a buffer that is not empty
MetadataLines(bytes) ==
    IF IsQuoted(Utf8(bytes)) /\ IsHexString(Unquoted(Utf8(bytes)))
    THEN Shown(<<Line("METADATA:", <<>>, "success"),
                 Line("Hex Decoded: ", hexToText(Unquoted(Utf8(bytes))), "success")>>,
               <<"hex">>)
    ELSE Shown(<<Line("METADATA:", <<>>, "success"), ValueLine(decodeMetadata(bytes))>>,
               <<"hex", "binary">>)

\* the case without its test of buffer.byteLength
MetadataUnchecked(ok, bytes) ==
    IF ~ok THEN Shown(<<Line(NoMetadata, <<>>, "system")>>, <<>>)
    ELSE MetadataLines(bytes)

\* case "METADATA" of part_000, from the response
MetadataOf(ok, bytes) ==
    IF ~ok \/ bytes = <<>> THEN Shown(<<Line(NoMetadata, <<>>, "system")>>, <<>>)
    ELSE MetadataLines(bytes)

\* the metadata step of case "ALL" of part_000, from the response
AllMetadataOf(ok, bytes) ==
    IF ~ok \/ bytes = <<>> THEN Shown(<<Line(AllNoMetadata, <<>>, "system")>>, <<>>)
    ELSE Shown(<<Line("METADATA:", <<>>, "success"), ValueLine(decodeMetadata(bytes))>>,
               <<"binary">>)

\* the characters of the texts that JSONparse reads, by code
CharCodes ==
    <<10, 32, 34, 44, 58, 91, 93, 123, 125,
      48, 49, 50, 51, 52, 53, 54, 55, 56, 57, 104>>
CharTexts ==
    <<"\n", " ", "\"", ",", ":", "[", "]", "{", "}",
      "0", "1", "2", "3", "4", "5", "6", "7", "8", "9", "h">>

CharPlace(c) == CHOOSE i \in 1 .. Len(CharCodes) : CharCodes[i] = c
TextPlace(ch) == CHOOSE i \in 1 .. Len(CharTexts) : CharTexts[i] = ch

\* a text of character codes as a text of characters, and back
CharsOf(cs) == [i \in 1 .. Len(cs) |-> CharTexts[CharPlace(cs[i])]]
CodesOf(s) == [i \in 1 .. Len(s) |-> CharCodes[TextPlace(s[i])]]

RECURSIVE WithCodes(_)
RECURSIVE MembersWithCodes(_, _)

\* the members of a parsed object: a key written twice keeps its first place
\* and its last value
MembersWithCodes(kvs, acc) ==
    IF kvs = <<>> THEN acc
    ELSE MembersWithCodes(Tail(kvs), MapPut(acc, CodesOf(kvs[1][1]), WithCodes(kvs[1][2])))

\* a parsed value with its texts as character codes
WithCodes(v) ==
    CASE v.t = "str" -> Str(CodesOf(v.v))
      [] v.t = "arr" -> Arr([i \in 1 .. Len(v.v) |-> WithCodes(v.v[i])])
      [] v.t = "obj" -> Obj(MembersWithCodes(v.v, <<>>))
      [] OTHER -> v

\* the white space that trim() removes
WhiteSpaceCodes ==
    {9, 10, 11, 12, 13, 32, 160, 5760, 8232, 8233, 8239, 8287, 12288, 65279}
        \cup (8192 .. 8202)

\* text.trim() === ""
IsBlank(text) == \A i \in 1 .. Len(text) : text[i] \in WhiteSpaceCodes

\* try { JSON.parse(text) } catch { the raw text }
ParsedLine(r, text) ==
    IF r.ok THEN Line("", Stringify(WithCodes(r.val), 0), "json")
    ELSE Line("", text, "default")

ParsedTried(r) == IF r.ok THEN <<"json">> ELSE <<"json", "text">>

HomeShown(r, text) ==
    Shown(<<Line("METADATA:", <<>>, "success"), ParsedLine(r, text)>>, ParsedTried(r))

\* the metadata step of Home.tsx, from the response; marker is the line it
\* prints when there is no metadata
HomeMetadataOf(ok, bytes, marker) ==
    IF ~ok \/ IsBlank(Utf8(bytes)) THEN Shown(<<Line(marker, <<>>, "system")>>, <<>>)
    ELSE HomeShown(JSONparse(CharsOf(Utf8(bytes))), Utf8(bytes))

(***************************************************************************)
(* The metadata specification: one INSCRIPTION command, ALL or METADATA,   *)
(* on a response drawn from a bounded set.                                 *)
(***************************************************************************)
\* bytes of a payload
MaxPayload == 3

\* ", 4, 8, h; 0x1c, which no decoder accepts; a map of one pair; null
MetaAlphabet == {28, 34, 52, 56, 104, 161, 246}

\* "48656c6c6f", "0a48", "4", {"a": 1}, [1, 2]
MetaFixtures ==
    {<<34, 52, 56, 54, 53, 54, 99, 54, 99, 54, 102, 34>>,
     <<34, 48, 97, 52, 56, 34>>,
     <<34, 52, 34>>,
     <<161, 97, 97, 1>>,
     <<130, 1, 2>>}

\* space, ", 4, 8, [, ], h
HomeAlphabet == {32, 34, 52, 56, 91, 93, 104}

Response(i, sub, ok, bytes) ==
    [kind |-> "payload", impl |-> i, sub |-> sub, ok |-> ok, bytes |-> bytes]

MetaInputs ==
    {Response("part_000", sub, ok, bs) :
        sub \in {"ALL", "METADATA"}, ok \in BOOLEAN,
        bs \in SeqsUpTo(MetaAlphabet, MaxPayload) \cup MetaFixtures}
    \cup
    {Response("Home", sub, ok, bs) :
        sub \in {"ALL", "METADATA"}, ok \in BOOLEAN,
        bs \in SeqsUpTo(HomeAlphabet, MaxPayload)}

NotShown == [done |-> FALSE, lines |-> <<>>, tried |-> <<>>]

InitMeta ==
    /\ pin \in MetaInputs
    /\ impl = pin.impl
    /\ pages = [p \in Pages |-> NotLoaded]
    /\ loadedPages = [p \in Pages |-> NotLoaded]
    /\ closure = [p \in Pages |-> NotLoaded]
    /\ call = [c \in Callers |-> IdleCall]
    /\ fetches = [u \in Urls \cup {"undefined"} |-> 0]
    /\ stores = [p \in Pages |-> 0]
    /\ failed = {}
    /\ lookups = <<>>
    /\ ncalls = 0
    /\ pout = NotShown
    /\ ociLoaded = FALSE
    /\ command = NoCommand
    /\ InitTerminal

\* INSCRIPTION <id> METADATA of part_000
InscriptionMetadata ==
    /\ impl = "part_000"
    /\ pin.sub = "METADATA"
    /\ ~pout.done
    /\ pout' = MetadataOf(pin.ok, pin.bytes)
    /\ UNCHANGED <<terminalVars, impl, ociLoaded, command, pages, loadedPages, closure, call, fetches, stores, failed,
                   lookups, ncalls, pin>>

\* INSCRIPTION <id> ALL of part_000: its metadata step
InscriptionAll ==
    /\ impl = "part_000"
    /\ pin.sub = "ALL"
    /\ ~pout.done
    /\ pout' = AllMetadataOf(pin.ok, pin.bytes)
    /\ UNCHANGED <<terminalVars, impl, ociLoaded, command, pages, loadedPages, closure, call, fetches, stores, failed,
                   lookups, ncalls, pin>>

\* INSCRIPTION <id> METADATA of Home.tsx
HomeInscriptionMetadata ==
    /\ impl = "Home"
    /\ pin.sub = "METADATA"
    /\ ~pout.done
    /\ pout' = HomeMetadataOf(pin.ok, pin.bytes, NoMetadata)
    /\ UNCHANGED <<terminalVars, impl, ociLoaded, command, pages, loadedPages, closure, call, fetches, stores, failed,
                   lookups, ncalls, pin>>

\* INSCRIPTION <id> ALL of Home.tsx: its metadata step
HomeInscriptionAll ==
    /\ impl = "Home"
    /\ pin.sub = "ALL"
    /\ ~pout.done
    /\ pout' = HomeMetadataOf(pin.ok, pin.bytes, AllNoMetadata)
    /\ UNCHANGED <<terminalVars, impl, ociLoaded, command, pages, loadedPages, closure, call, fetches, stores, failed,
                   lookups, ncalls, pin>>

NextMeta ==
    \/ InscriptionMetadata
    \/ InscriptionAll
    \/ HomeInscriptionMetadata
    \/ HomeInscriptionAll

SpecMeta == InitMeta /\ [][NextMeta]_vars

(***************************************************************************)
(* handleOci: the OCI command of the console, OCI LOAD, OCI <district> and *)
(* OCI without arguments, one command after the other.  The functions of   *)
(* a command close over the ociLoaded and ociData of the render it was     *)
(* entered in.  Its calls of getBitmapSat and getBitmapInscriptionId are   *)
(* the calls of caller "a".                                                *)
(***************************************************************************)
\* commands entered in one behaviour
MaxCommands == 2
\* responses that are not ok in one behaviour
MaxFailures == 1

Subcommands == {"LOAD", "DISTRICT", "STATUS"}

\* the districts of OCI <district>: below the range, a slot that the pair
\* text fills and one that it leaves 0
OciDistricts == {-1, District(4, 0), District(4, 1)}

OciTexts == {TextPair, TextBad}

\* the command as it is entered
Entered(sub, d) ==
    [NoCommand EXCEPT !.pc = "entered", !.sub = sub,
                      !.d = IF sub = "DISTRICT" THEN d ELSE 0,
                      !.seenLoaded = ociLoaded, !.n = command.n + 1]

\* appendToConsole, line after line
Say(cmd, lines) == [cmd EXCEPT !.lines = @ \o lines]

\* the command awaits at pc; setIsProcessing(false) ends it
Awaits(cmd, pc) == [cmd EXCEPT !.pc = pc]
Ends(cmd) == [cmd EXCEPT !.pc = "done"]

\* the call of getBitmapSat / getBitmapInscriptionId the command makes
CallOf(op, d) == [IdleCall EXCEPT !.op = op, !.d = d, !.page = PageOf(d)]

RangeError ==
    Said("District number must be between 0 and 839999", "error", 0, 0)

Resolving(d) ==
    Said("Resolving sat number for Bitcoin District #${districtNumber}...", "default", d, 0)

NotInitialized ==
    <<Said("OCI Status: Bitcoin Districts mapping not initialized.", "default", 0, 0),
      Said("Use OCI LOAD to prepare the system, or OCI <district_number> to look up directly.",
           "default", 0, 0)>>

\* the pages a cache holds
Held(cache) == Cardinality({p \in Pages : cache[p] # NotLoaded})

\* the status lines of Home.tsx: ociData.pages.filter(p => p !== 0).length
HomeStatus ==
    <<Said("OCI Status: Bitcoin Districts mapping ready.", "success", 0, 0),
      Said("Use OCI <district_number> to lookup the sat number for a specific district.",
           "default", 0, 0),
      Said("${loadedPages} of 9 district pages are currently loaded.", "default", 0,
           Held(pages)),
      Said("Pages are loaded on demand when you query a district number.", "default", 0, 0)>>

\* the status lines of part_001: Object.keys(ociData.loadedPages).length
Part001Status ==
    <<Said("OCI Status: Bitcoin Districts mapping ready.", "success", 0, 0),
      Said("Use OCI <district_number> to lookup the sat number for a specific district.",
           "default", 0, 0),
      Said("${loadedPages} of 9 district pages are currently loaded.", "default", 0,
           Held(closure)),
      Said("Pages are loaded on demand when you query a district number.", "default", 0, 0),
      Said("Use OCI LOAD to load all district data at once.", "default", 0, 0)>>

\* Home.tsx loadOciModule up to its fetch of the OCI inscription
LoadOciModule(cmd) ==
    IF cmd.seenLoaded
    THEN Ends(Say(cmd, <<Said("OCI module is already loaded.", "success", 0, 0)>>))
    ELSE Awaits(Say(cmd,
             <<Said("Loading Bitcoin Districts OCI module...", "system", 0, 0),
               Said("This may take a few moments to load and process the inscription.",
                    "system", 0, 0)>>), "moduleFetch")

\* Home.tsx handleOci up to its first await
HomeOci(sub, d) ==
    /\ impl = "Home"
    /\ command.pc \in {"idle", "done"}
    /\ command.n < MaxCommands
    /\ \A c \in Callers : call[c].pc \in {"idle", "done"}
    /\ IF sub = "DISTRICT" /\ ~OutOfRange(d) /\ ociLoaded
       THEN /\ command' = Awaits(Say(Entered(sub, d), <<Resolving(d)>>), "sat")
            /\ Enter("a", CallOf("sat", d))
       ELSE /\ command' =
                   IF sub = "STATUS"
                   THEN Ends(Say(Entered(sub, d),
                                 IF ociLoaded THEN HomeStatus ELSE NotInitialized))
                   ELSE IF sub = "DISTRICT" /\ OutOfRange(d)
                   THEN Ends(Say(Entered(sub, d), <<RangeError>>))
                   ELSE LoadOciModule(Entered(sub, d))
            /\ UNCHANGED <<call, fetches, lookups>>
    /\ UNCHANGED <<terminalVars, impl, pages, loadedPages, closure, stores, failed, ncalls, pin,
                   pout, ociLoaded>>

\* Home.tsx loadOciModule after its fetch: a response that is not ok ends it
\* with false; otherwise a new array `pages` and the functions over it are
\* put into ociData and ociLoaded is set.  OCI <district> then tests
\* `loaded && ociData` on the ociData of its closure, which is null
ModuleFetchSettles(ok) ==
    /\ command.pc = "moduleFetch"
    /\ command' =
           IF ok
           THEN Ends(Say(command, <<Said("OCI module loaded successfully!", "success", 0, 0)>>))
           ELSE Ends(Say(command,
                    <<Said("Error: Could not load OCI module. Server responded with ${response.status}",
                           "error", 0, 0)>>))
    /\ ociLoaded' = IF ok THEN TRUE ELSE ociLoaded
    /\ pages' = IF ok THEN [p \in Pages |-> NotLoaded] ELSE pages
    /\ UNCHANGED <<terminalVars, impl, loadedPages, closure, call, fetches, stores, failed, lookups,
                   ncalls, pin, pout>>

\* part_001 initializeOci, with the ociLoaded of the closure
InitializeOci(cmd) ==
    IF cmd.seenLoaded THEN cmd
    ELSE Say(cmd, <<Said("Loading Bitcoin Districts OCI data...", "system", 0, 0),
                    Said("Initializing the OCI structure...", "system", 0, 0),
                    Said("OCI structure prepared.", "success", 0, 0)>>)

\* part_001 handleOci up to its first await, in a component that has
\* rendered since ociData was set
Part001Oci(sub, d) ==
    /\ impl = "part_001"
    /\ command.pc \in {"idle", "done"}
    /\ command.n < MaxCommands
    /\ \A c \in Callers : call[c].pc \in {"idle", "done"}
    /\ closure = loadedPages
    /\ ociLoaded' = TRUE
    /\ loadedPages' = IF ociLoaded THEN loadedPages ELSE [p \in Pages |-> NotLoaded]
    /\ IF sub = "DISTRICT" /\ ~OutOfRange(d)
       THEN /\ command' = Awaits(Say(InitializeOci(Entered(sub, d)), <<Resolving(d)>>), "sat")
            /\ Enter("a", CallOf("sat", d))
       ELSE /\ command' =
                   IF sub = "STATUS"
                   THEN Ends(Say(InitializeOci(Entered(sub, d)),
                                 IF ociLoaded THEN Part001Status ELSE NotInitialized))
                   ELSE IF sub = "DISTRICT"
                   THEN Ends(Say(InitializeOci(Entered(sub, d)), <<RangeError>>))
                   ELSE Awaits(Say(InitializeOci(Entered(sub, d)),
                            <<Said("Starting to load all Bitcoin Districts data...",
                                   "system", 0, 0)>>), "loop")
            /\ UNCHANGED <<call, fetches, lookups>>
    /\ UNCHANGED <<terminalVars, impl, pages, closure, stores, failed, ncalls, pin, pout>>

\* the lines that report the sat of district d
SatLines(d, sat) ==
    <<Said("Bitcoin District #${districtNumber} corresponds to sat ${sat}", "success", d,
           sat.v)>>
    \o (IF getBitmapSatIndex(d) > 0
        THEN <<Said("Note: This district's bitmap is inscription #${satIndex} on this sat",
                    "default", d, getBitmapSatIndex(d))>>
        ELSE <<>>)
    \o <<Said("Fetching inscription ID...", "default", d, 0)>>

\* Home.tsx prints that it could not resolve the sat, part_001 prints nothing
NoSatLines(d) ==
    IF impl = "Home"
    THEN <<Said("Could not resolve sat number for district ${districtNumber}.", "error", d, 0)>>
    ELSE <<>>

\* getBitmapSat has returned to the command: if (sat) the sat is reported
\* and getBitmapInscriptionId is called
SatReturns ==
    /\ command.pc = "sat"
    /\ call["a"].pc = "done"
    /\ IF Falsy(call["a"].result)
       THEN /\ command' = Ends(Say(command, NoSatLines(command.d)))
            /\ UNCHANGED <<call, fetches, lookups>>
       ELSE /\ command' = Awaits(Say(command, SatLines(command.d, call["a"].result)), "id")
            /\ Enter("a", CallOf("inscription", command.d))
    /\ UNCHANGED <<terminalVars, impl, pages, loadedPages, closure, stores, failed, ncalls, pin,
                   pout, ociLoaded>>

IdLines(d, id) ==
    <<Said("Inscription ID: ${inscriptionId}", "success", d, id.v),
      Said("Explore at: ${baseUrl}/inscription/${inscriptionId}", "default", d, id.v)>>

NoIdLines ==
    IF impl = "Home" THEN <<Said("Could not fetch inscription ID.", "error", 0, 0)>>
    ELSE <<>>

\* getBitmapInscriptionId has returned to the command
IdReturns ==
    /\ command.pc = "id"
    /\ call["a"].pc = "done"
    /\ command' =
           IF Falsy(call["a"].result) THEN Ends(Say(command, NoIdLines))
           ELSE Ends(Say(command, IdLines(command.d, call["a"].result)))
    /\ UNCHANGED <<terminalVars, impl, pages, loadedPages, closure, call, fetches, stores, failed,
                   lookups, ncalls, pin, pout, ociLoaded>>

\* part_001 OCI LOAD, the head of `for (let i = 0; i < 9; i++)`: a page that
\* the ociData of the closure holds is counted, any other is fetched
LoadNext ==
    /\ command.pc = "loop"
    /\ IF command.i = NumPages
       THEN /\ command' = Ends(Say(command,
                   <<Said("Bitcoin Districts data loading complete. ${loadedPageCount} of 9 pages loaded.",
                          "success", 0, command.count)>>))
            /\ UNCHANGED fetches
       ELSE IF closure[command.i] # NotLoaded
       THEN /\ command' = [Say(command,
                   <<Said("District data for page ${i} already loaded.", "default", 0,
                          command.i)>>)
                           EXCEPT !.i = @ + 1, !.count = @ + 1]
            /\ UNCHANGED fetches
       ELSE /\ command' = Awaits(command, "pageFetch")
            /\ fetches' = [fetches EXCEPT ![UrlOf(command.i)] = @ + 1]
    /\ UNCHANGED <<terminalVars, impl, pages, loadedPages, closure, call, stores, failed, lookups,
                   ncalls, pin, pout, ociLoaded>>

\* the fetch of loadDistrictPage(i) settles
LoadFetchSettles(ok) ==
    /\ command.pc = "pageFetch"
    /\ command' = IF ok THEN Awaits(command, "pageText")
                  ELSE [command EXCEPT !.pc = "loop", !.i = @ + 1]
    /\ failed' = IF ok THEN failed ELSE failed \cup {command.i}
    /\ UNCHANGED <<terminalVars, impl, pages, loadedPages, closure, call, fetches, stores, lookups,
                   ncalls, pin, pout, ociLoaded>>

\* loadDistrictPage(i) from the response text: the page is stored, and
\* counted when an array comes back
LoadTextArrives(text) ==
    /\ command.pc = "pageText"
    /\ command' = [command EXCEPT !.pc = "loop", !.i = @ + 1,
                                  !.count = IF Fill(command.i, text).ok THEN @ + 1 ELSE @]
    /\ Filled("a", command.i, Fill(command.i, text))
    /\ UNCHANGED <<terminalVars, impl, closure, call, fetches, lookups, ncalls, pin, pout, ociLoaded>>

\* a response that is not ok, within the failures of a behaviour
MayFail(ok) == ok \/ Cardinality(failed) < MaxFailures

\* the component renders again once a command is over
RenderedAfter ==
    /\ command.pc \in {"idle", "done"}
    /\ Render

NextOci ==
    \/ \E sub \in Subcommands, d \in OciDistricts : HomeOci(sub, d)
    \/ \E sub \in Subcommands, d \in OciDistricts : Part001Oci(sub, d)
    \/ \E ok \in BOOLEAN : ModuleFetchSettles(ok)
    \/ SatReturns
    \/ IdReturns
    \/ LoadNext
    \/ \E ok \in BOOLEAN : MayFail(ok) /\ LoadFetchSettles(ok)
    \/ \E text \in OciTexts : LoadTextArrives(text)
    \/ \E ok \in BOOLEAN : MayFail(ok) /\ FetchSettles("a", ok)
    \/ \E text \in OciTexts : TextArrives("a", text)
    \/ Resume("a")
    \/ \E ok \in BOOLEAN : LookupSettles("a", ok)
    \/ \E ok \in BOOLEAN : JsonArrives("a", ok)
    \/ RenderedAfter

SpecOci == Init /\ [][NextOci]_vars

(***************************************************************************)
(* The command line: the detection of the connectivity mode at startup,    *)
(* the Enter key, and the handlers of MODE, BLOCK and OCI with the state   *)
(* that their closures hold.  Of the district data it keeps whether the    *)
(* page of the district asked for is held.                                 *)
(***************************************************************************)
Commands == {"MODE WEB", "MODE ORD", "BLOCK", "OCI LOAD", "OCI DISTRICT"}

\* the state as a render that happens now shows it to the handlers
Now(processing, base, loaded, data) ==
    [isProcessing |-> processing, baseUrl |-> base, ociLoaded |-> loaded, ociData |-> data]

\* a line of the log: a base URL that was set (by the detection, by MODE),
\* or a request of the OCI command with the base URL it went to
Logged(kind, base) == [kind |-> kind, baseUrl |-> base]

\* a handler with the state of the render in which its key was pressed
Started(name, pc, seen) == [pc |-> pc, name |-> name, seen |-> seen]

\* the keys pressed so far that were taken as commands
Keys == Cardinality({k \in 1 .. MaxKeys : handler[k].pc # "idle"})

\* the handlers in flight
Running == {k \in 1 .. MaxKeys : handler[k].pc \notin {"idle", "done"}}

\* Home.tsx detectMode, the fetch of /r/blocktime from the local server
\* settles with a timestamp or without
DetectOrd(ok) ==
    /\ impl = "Home"
    /\ startup.pc = "ord"
    /\ startup' = [startup EXCEPT !.pc = "web", !.ord = ok]
    /\ UNCHANGED <<engineVars, ociLoaded, isProcessing, baseUrl, ociData, rendered,
                   handler, log>>

\* Home.tsx detectMode, the fetch from ordinals.com settles: the mode and
\* the base URL are set, and setIsProcessing(false) enables the input
DetectWeb(ok) ==
    /\ impl = "Home"
    /\ startup.pc = "web"
    /\ startup' = [startup EXCEPT !.pc = "done"]
    /\ baseUrl' = IF startup.ord THEN Local ELSE Web
    /\ log' = Append(log, Logged("detected", IF startup.ord THEN Local ELSE Web))
    /\ isProcessing' = FALSE
    /\ UNCHANGED <<engineVars, ociLoaded, ociData, rendered, handler>>

\* part_001 checkConnectivityMode, the fetch from ordinals.com settles
CheckWeb(ok) ==
    /\ impl = "part_001"
    /\ startup.pc = "web"
    /\ startup' = [startup EXCEPT !.pc = IF ok THEN "done" ELSE "ord"]
    /\ baseUrl' = IF ok THEN Web ELSE baseUrl
    /\ log' = IF ok THEN Append(log, Logged("detected", Web)) ELSE log
    /\ UNCHANGED <<engineVars, ociLoaded, isProcessing, ociData, rendered, handler>>

\* part_001 checkConnectivityMode, the fetch from the local server settles
CheckOrd(ok) ==
    /\ impl = "part_001"
    /\ startup.pc = "ord"
    /\ startup' = [startup EXCEPT !.pc = "done", !.ord = ok]
    /\ baseUrl' = IF ok THEN Local ELSE Web
    /\ log' = Append(log, Logged("detected", IF ok THEN Local ELSE Web))
    /\ UNCHANGED <<engineVars, ociLoaded, isProcessing, ociData, rendered, handler>>

\* part_001, the timer of the startup effect: setTimeout(() => { ...
\* setIsProcessing(false) }, 100)
StartupTimer ==
    /\ impl = "part_001"
    /\ ~startup.timer
    /\ startup' = [startup EXCEPT !.timer = TRUE]
    /\ isProcessing' = FALSE
    /\ UNCHANGED <<engineVars, ociLoaded, baseUrl, ociData, rendered, handler, log>>

\* the component renders again after a state was set outside a key event
Rerender ==
    /\ rendered # Now(isProcessing, baseUrl, ociLoaded, ociData)
    /\ rendered' = Now(isProcessing, baseUrl, ociLoaded, ociData)
    /\ UNCHANGED <<engineVars, ociLoaded, isProcessing, baseUrl, ociData, handler,
                   startup, log>>

\* handleCommandInput: if (e.key === 'Enter' && !isProcessing)
EnterAlways(seen) == TRUE
EnterAccepted(seen) == ~seen.isProcessing

BaseOf(cmd) == IF cmd = "MODE WEB" THEN Web ELSE Local

\* handleMode: the mode and the base URL are set; part_001 also sets
\* isProcessing to true and back to false
handleMode(k, cmd) ==
    /\ baseUrl' = BaseOf(cmd)
    /\ log' = Append(log, Logged("mode", BaseOf(cmd)))
    /\ handler' = [handler EXCEPT ![k] = Started(cmd, "done", rendered)]
    /\ isProcessing' = IF impl = "Home" THEN isProcessing ELSE FALSE
    /\ rendered' = Now(isProcessing', BaseOf(cmd), ociLoaded, ociData)
    /\ UNCHANGED <<ociLoaded, ociData>>

\* handleBlock up to its fetch of ${baseUrl}/r/blocktime (part_001: /r/block)
handleBlock(k, cmd) ==
    /\ isProcessing' = TRUE
    /\ handler' = [handler EXCEPT ![k] = Started(cmd, "fetch", rendered)]
    /\ rendered' = Now(TRUE, baseUrl, ociLoaded, ociData)
    /\ UNCHANGED <<baseUrl, ociLoaded, ociData, log>>

\* Home.tsx handleOci up to its first await.  With ociLoaded and ociData of
\* its closure set, OCI LOAD is over and OCI <district> calls the
\* getBitmapSat that ociData holds: it fetches the page from the baseUrl of
\* the closure in which the module was loaded, or reads the page and goes on
\* to the lookup.  Otherwise loadOciModule fetches the module
HomeHandleOci(k, cmd) ==
    /\ isProcessing' = TRUE
    /\ rendered' = Now(TRUE, baseUrl, ociLoaded, ociData)
    /\ IF rendered.ociLoaded /\ rendered.ociData.set
       THEN IF cmd = "OCI LOAD"
            THEN /\ handler' = [handler EXCEPT ![k] = Started(cmd, "last", rendered)]
                 /\ UNCHANGED log
            ELSE IF ociData.page
            THEN /\ handler' = [handler EXCEPT ![k] = Started(cmd, "lookup", rendered)]
                 /\ log' = Append(log, Logged("lookup", rendered.ociData.baseUrl))
            ELSE /\ handler' = [handler EXCEPT ![k] = Started(cmd, "page", rendered)]
                 /\ log' = Append(log, Logged("page", rendered.ociData.baseUrl))
       ELSE /\ handler' = [handler EXCEPT ![k] = Started(cmd, "module", rendered)]
            /\ log' = Append(log, Logged("module", rendered.baseUrl))
    /\ UNCHANGED <<baseUrl, ociLoaded, ociData>>

\* part_001 handleOci up to its first fetch: initializeOci sets ociData and
\* ociLoaded when the ociLoaded of the closure is false; a page that the
\* ociData of the closure does not hold is fetched from the baseUrl of the
\* closure; OCI <district> on a page that it holds goes on to the lookup
Part001HandleOci(k, cmd) ==
    /\ isProcessing' = TRUE
    /\ ociLoaded' = TRUE
    /\ ociData' = IF rendered.ociLoaded THEN ociData
                  ELSE [set |-> TRUE, baseUrl |-> Local, page |-> FALSE]
    /\ rendered' = Now(TRUE, baseUrl, ociLoaded', ociData')
    /\ IF ~rendered.ociData.page
       THEN /\ handler' = [handler EXCEPT ![k] = Started(cmd, "page", rendered)]
            /\ log' = Append(log, Logged("page", rendered.baseUrl))
       ELSE IF cmd = "OCI LOAD"
       THEN /\ handler' = [handler EXCEPT ![k] = Started(cmd, "last", rendered)]
            /\ UNCHANGED log
       ELSE /\ handler' = [handler EXCEPT ![k] = Started(cmd, "lookup", rendered)]
            /\ log' = Append(log, Logged("lookup", rendered.baseUrl))
    /\ UNCHANGED baseUrl

\* processCommand: the handler of the command
processCommand(k, cmd) ==
    IF cmd \in {"MODE WEB", "MODE ORD"} THEN handleMode(k, cmd)
    ELSE IF cmd = "BLOCK" THEN handleBlock(k, cmd)
    ELSE IF impl = "Home" THEN HomeHandleOci(k, cmd)
    ELSE Part001HandleOci(k, cmd)

\* handleCommandInput on the Enter key: the command is processed when the
\* isProcessing of the last render is false; the states set in the key
\* event are rendered before the next event
handleCommandInput(cmd) ==
    /\ Keys < MaxKeys
    /\ EnterAccepted(rendered)
    /\ processCommand(Keys + 1, cmd)
    /\ UNCHANGED <<engineVars, startup>>

\* setIsProcessing(false) at the end of a handler (a finally block, or the
\* last line of handleOci)
Ended(k) == [handler EXCEPT ![k].pc = "last"]

\* handleBlock, its fetch settles: the block time is printed or an error
BlockSettles(k, ok) ==
    /\ handler[k].pc = "fetch"
    /\ handler' = Ended(k)
    /\ UNCHANGED <<engineVars, ociLoaded, isProcessing, baseUrl, ociData, rendered,
                   startup, log>>

\* Home.tsx loadOciModule, its fetch settles: the functions that close over
\* the baseUrl of this handler are put into ociData and ociLoaded is set;
\* OCI <district> then finds the ociData of its closure null and is over
ModuleSettles(k, ok) ==
    /\ handler[k].pc = "module"
    /\ handler' = Ended(k)
    /\ ociData' = IF ok THEN [set |-> TRUE, baseUrl |-> handler[k].seen.baseUrl,
                              page |-> FALSE]
                  ELSE ociData
    /\ ociLoaded' = IF ok THEN TRUE ELSE ociLoaded
    /\ UNCHANGED <<engineVars, isProcessing, baseUrl, rendered, startup, log>>

\* the base URL of the functions that the handler calls: in Home.tsx those
\* that the ociData of its closure holds, in part_001 its own
FunctionsBase(seen) == IF impl = "Home" THEN seen.ociData.baseUrl ELSE seen.baseUrl

\* the fetch of the page settles.  Home.tsx stores the page, getBitmapSat
\* returns the sat, and getBitmapInscriptionId fetches the lookup.  part_001
\* stores the page, finds none in the ociData of its closure and returns
\* null (OCI LOAD counts the page)
PageSettles(k, ok) ==
    /\ handler[k].pc = "page"
    /\ ociData' = IF ok THEN [ociData EXCEPT !.page = TRUE] ELSE ociData
    /\ IF ok /\ impl = "Home"
       THEN /\ handler' = [handler EXCEPT ![k].pc = "lookup"]
            /\ log' = Append(log, Logged("lookup", FunctionsBase(handler[k].seen)))
       ELSE /\ handler' = Ended(k)
            /\ UNCHANGED log
    /\ UNCHANGED <<engineVars, ociLoaded, isProcessing, baseUrl, rendered, startup>>

\* the fetch of /r/sat/<sat>/at/<index> settles
OciLookupSettles(k, ok) ==
    /\ handler[k].pc = "lookup"
    /\ handler' = Ended(k)
    /\ UNCHANGED <<engineVars, ociLoaded, isProcessing, baseUrl, ociData, rendered,
                   startup, log>>

\* the handler is over: setIsProcessing(false)
Finish(k) ==
    /\ handler[k].pc = "last"
    /\ handler' = [handler EXCEPT ![k].pc = "done"]
    /\ isProcessing' = FALSE
    /\ UNCHANGED <<engineVars, ociLoaded, baseUrl, ociData, rendered, startup, log>>

NextTerminal ==
    \/ \E ok \in BOOLEAN : DetectOrd(ok)
    \/ \E ok \in BOOLEAN : DetectWeb(ok)
    \/ \E ok \in BOOLEAN : CheckWeb(ok)
    \/ \E ok \in BOOLEAN : CheckOrd(ok)
    \/ StartupTimer
    \/ Rerender
    \/ \E cmd \in Commands : handleCommandInput(cmd)
    \/ \E k \in 1 .. MaxKeys, ok \in BOOLEAN : BlockSettles(k, ok)
    \/ \E k \in 1 .. MaxKeys, ok \in BOOLEAN : ModuleSettles(k, ok)
    \/ \E k \in 1 .. MaxKeys, ok \in BOOLEAN : PageSettles(k, ok)
    \/ \E k \in 1 .. MaxKeys, ok \in BOOLEAN : OciLookupSettles(k, ok)
    \/ \E k \in 1 .. MaxKeys : Finish(k)

SpecTerminal == Init /\ [][NextTerminal]_vars

(***************************************************************************)
(* The properties.                                                         *)
(***************************************************************************)
\* the calls that are loading page p: past the fetch, before the page is
\* filled
Loading(p) ==
    {c \in Callers : call[c].page = p /\ call[c].pc \in {"awaitFetch", "awaitText"}}

\* the step starts a call of caller c
Starts(c) ==
    /\ ncalls' = ncalls + 1
    /\ call'[c] # call[c]

\* the step is one in which getBitmapSat returns to caller c
Returns(c) ==
    /\ call[c].pc \in {"idle", "done", "filled"}
    /\ call'[c].pc \in {"done", "awaitLookup"}
    /\ call'[c] # call[c]

\* d is no district number: below 0 or above the last district
NoDistrict(d) == d < 0 \/ d > NumPages * PageSize - 1

\* C1: when two calls of getBitmapSat for districts of the same page that is
\* not loaded are in flight at the same time, the page is fetched once: at
\* most one load of a page is in flight
C1_SingleFlight == \A p \in Pages : Cardinality(Loading(p)) <= 1

\* C2: a call for a district d of 0 .. MaxDistrict fetches no URL but that
\* of page d \div PageSize, and (Home.tsx) assigns no entry of pages but
\* that page's
FetchesOwnPage(c) ==
    /\ call[c].pc # "awaitFetch"
    /\ call'[c].pc = "awaitFetch"
    /\ ~NoDistrict(call'[c].d)
    /\ fetches' = [fetches EXCEPT ![allPages[(call'[c].d \div PageSize) + 1]] = @ + 1]

WritesOwnPage(c) ==
    /\ call[c].pc = "awaitText"
    /\ call'[c].pc = "filled"
    /\ ~NoDistrict(call[c].d)
    /\ \A p \in Pages : pages'[p] # pages[p] => p = call[c].d \div PageSize

FailsAtOnce(c) ==
    /\ call'[c].pc = "done"
    /\ call'[c].result = Null
    /\ fetches' = fetches
    /\ lookups' = lookups
    /\ pages' = pages
    /\ loadedPages' = loadedPages
    /\ stores' = stores

C3_OutOfRange ==
    [][\A c \in Callers : Starts(c) /\ NoDistrict(call'[c].d) => FailsAtOnce(c)]_vars

\* C3, reached: one caller has asked for the number above the last district,
\* the other for -1, both got null, and nothing was fetched
C3_Reached ==
    /\ call["a"].pc = "done" /\ call["a"].d = MaxDistrict + 1 /\ call["a"].result = Null
    /\ call["b"].pc = "done" /\ call["b"].d = -1 /\ call["b"].result = Null
    /\ \A u \in DOMAIN fetches : fetches[u] = 0
    /\ lookups = <<>>

\* deltas[0] + ... + deltas[i - 1], for the first i deltas
RECURSIVE SumTo(_, _)
SumTo(deltas, i) == IF i = 0 THEN 0 ELSE SumTo(deltas, i - 1) + deltas[i].v

\* the last of the first n positions of indices that names slot k (from 1),
\* 0 when none does
RECURSIVE LastNamed(_, _, _)
LastNamed(indices, k, n) ==
    IF n = 0 THEN 0
    ELSE IF indices[n].v = k THEN n
    ELSE LastNamed(indices, k, n - 1)

Min(a, b) == IF a < b THEN a ELSE b

\* the value of a slot that position i of indices names last: the sum of the
\* first i deltas; Home.tsx stores fullSats[i], which is undefined past the
\* end of the deltas
SlotFor(deltas, i) ==
    IF i = 0 THEN Num(0)
    ELSE IF i <= Len(deltas) THEN Num(SumTo(deltas, i))
    ELSE Undefined

\* the positions of indices that the implementation places: all of them in
\* Home.tsx, those that have a delta in part_001
Placed(deltas, indices) ==
    IF impl = "Home" THEN Len(indices) ELSE Min(Len(indices), Len(deltas))

PairDone == pout.done /\ pin.kind = "pair"

C5_LoadedIsKept ==
    [][\A p \in Pages :
          Cache[p] # NotLoaded =>
              /\ Cache'[p] = Cache[p]
              /\ stores'[p] = stores[p]
              /\ fetches'[allPages[p + 1]] = fetches[allPages[p + 1]]]_vars

\* the step starts a call of caller c for a district of a page that is not
\* loaded and of which a load has failed
StartsOnFailed(c) ==
    /\ Starts(c)
    /\ ~NoDistrict(call'[c].d)
    /\ (call'[c].d \div PageSize) \in failed
    /\ Cache[call'[c].d \div PageSize] = NotLoaded
    /\ SeenPage(call'[c].d \div PageSize) = NotLoaded

\* the step is one in which the load of caller c fails
LoadFails(c) ==
    /\ call[c].pc \in {"awaitFetch", "awaitText"}
    /\ call'[c].pc = "filled"
    /\ ~call'[c].ok

\* C6, as stated: after a load of a page has failed, a call for a district
\* of the page returns null and fetches nothing
C6_FailedIsSticky ==
    [][\A c \in Callers :
          StartsOnFailed(c) =>
              /\ fetches' = fetches
              /\ call'[c].pc = "done"
              /\ call'[c].sat = Null]_vars

\* C6, amended: a load that fails stores nothing and the call that ran it
\* returns null; the page stays not loaded, and every later call for a
\* district of it fetches the page again
C6_FailedIsFetchedAgain ==
    [][\A c \in Callers :
          /\ LoadFails(c) =>
                /\ pages' = pages
                /\ loadedPages' = loadedPages
                /\ stores' = stores
                /\ call[c].page \in failed'
          /\ call[c].pc = "filled" /\ ~call[c].ok /\ call'[c] # call[c] =>
                /\ call'[c].pc = "done"
                /\ call'[c].result = Null
                /\ lookups' = lookups
          /\ StartsOnFailed(c) =>
                /\ call'[c].pc = "awaitFetch"
                /\ fetches' = [fetches EXCEPT ![allPages[(call'[c].d \div PageSize) + 1]] = @ + 1]]_vars

\* C6, reached: the load of page 0 has failed, its caller got null, and the
\* page is being fetched a second time for the other caller
C6_Reached ==
    /\ 0 \in failed
    /\ Cache[0] = NotLoaded
    /\ call["a"].pc = "done" /\ call["a"].d = District(0, 0) /\ call["a"].result = Null
    /\ call["b"].pc = "awaitFetch" /\ call["b"].d = District(0, 1)
    /\ fetches[allPages[1]] = 2

\* the text of a page as the specification reads it: bracketed and split on
\* pages 2 and 3, the three repairs on the others
ReadAsPair(page, text) == IF page \in {2, 3} THEN BarePair(text) ELSE Repair(text)

\* r is no parsed [deltas, indices] pair of arrays
NoPair(r) ==
    \/ ~r.ok
    \/ ~IsArr(r.data)
    \/ Len(r.data.v) # 2
    \/ ~IsArr(r.data.v[1])
    \/ ~IsArr(r.data.v[2])

\* C7: a text that no repair parses, or that parses to something else than
\* a pair of arrays, makes the load fail, and no array is stored for the page
C7_UnrecognizedFails ==
    pout.done /\ pin.kind = "text" /\ NoPair(ReadAsPair(pin.page, pin.text)) => ~pout.ok

\* the slot of district d in the page array the call reads
Stored(d) == At(SeenPage(d \div PageSize), d % PageSize)

\* C8: getBitmapSat on a loaded page returns the value stored in slot
\* d mod PageSize of the page, a 0 (unresolved) when the slot holds 0, and
\* no value that was not rebuilt from the page
C8_ReturnsStored ==
    [][\A c \in Callers :
          Returns(c) /\ call'[c].sat # Null => call'[c].sat = Stored(call'[c].d)]_vars

\* the offset of district d on its sat: its entry of satIndices, 0 without one
OffsetOf(d) == IF d \in DOMAIN satIndices THEN satIndices[d] ELSE 0

\* the step is one in which caller c issues the inscription lookup
LooksUp(c) ==
    /\ call[c].pc \in {"idle", "done", "filled"}
    /\ call'[c].pc = "awaitLookup"
    /\ call'[c].op = "inscription"
    /\ Len(lookups') = Len(lookups) + 1

\* the step is one in which getBitmapInscriptionId of caller c gets no sat
GetsNoSat(c) ==
    /\ Returns(c)
    /\ call'[c].op = "inscription"
    /\ Falsy(call'[c].sat)

C15_RoundTrip ==
    pout.done /\ pin.kind = "tree" /\ pin.tree \in Fixtures =>
        /\ ~pout.thrown
        /\ pout.val = ValueOf(pin.tree)

\* C15, reached: the encodings of 1000 and of the map of 2 keys are decoded
C15_Reached ==
    /\ pout.done
    /\ pin.kind = "tree"
    /\ \/ pin.tree = UInt(1000) /\ pout.val = Num(1000) /\ pin.bytes = <<25, 3, 232>>
       \/ /\ pin.tree.k = "map"
          /\ pout.val = Obj(<<(<<(<<97>>), Num(1)>>), (<<(<<98>>), Num(-1)>>)>>)
          /\ pin.trailer = <<>>

\* C16: the cursor never passes the end of the buffer: a decode that reads
\* past the end throws, so one that returns leaves the cursor within the
\* buffer
C16_CursorInBuffer ==
    pout.done /\ ~pout.thrown => pout.pos \in 0 .. Len(pin.bytes)

\* C20: one decode consumes the bytes of one encoded value and leaves the
\* cursor on the first byte after it, also for major type 7 with an
\* argument of 1, 2, 4 or 8 bytes
C20_ConsumesOne ==
    pout.done /\ pin.kind = "tree" =>
        /\ ~pout.thrown
        /\ pout.pos = Len(Encode(pin.tree))

\* the strategies of the metadata decoder in the order of the specification
Strategies == <<"hex", "binary", "text">>

\* C11: on every path of part_000 that decodes metadata, a payload that is
\* not empty is put to the strategies in the order hex, binary, text, up to
\* the first that succeeds
C11_SameOrder ==
    pout.done /\ impl = "part_000" /\ pin.ok /\ pin.bytes # <<>> =>
        \E n \in 1 .. Len(Strategies) : pout.tried = SubSeq(Strategies, 1, n)

\* the text of the bytes that the pairs of hexadecimal digits of cs name
RECURSIVE PairsAsText(_)
PairsAsText(cs) ==
    IF Len(cs) < 2 THEN <<>>
    ELSE (IF 16 * HexVal(cs[1]) + HexVal(cs[2]) \in 32 .. 126
          THEN <<16 * HexVal(cs[1]) + HexVal(cs[2])>>
          ELSE <<92, 120, cs[1], cs[2]>>) \o PairsAsText(SubSeq(cs, 3, Len(cs)))

\* the payload is a quoted text of pairs of hexadecimal digits
IsQuotedHex(bytes) ==
    /\ IsQuoted(Utf8(bytes))
    /\ IsHexString(Unquoted(Utf8(bytes)))
    /\ Len(bytes) % 2 = 0

\* C12: a payload that is a quoted text of hexadecimal digits is shown as the
\* text its pairs name: a printable character (32..126) for a pair, \xNN for
\* any other
C12_QuotedHex ==
    pout.done /\ impl = "part_000" /\ pin.ok /\ IsQuotedHex(pin.bytes) =>
        /\ Len(pout.lines) = 2
        /\ pout.lines[2].template = "Hex Decoded: "
        /\ pout.lines[2].text = PairsAsText(Unquoted(Utf8(pin.bytes)))

\* C13: decoding metadata prints no error, and a payload that is no quoted
\* hexadecimal text and that the binary decoder fails on is shown as its
\* bytes read as UTF-8 text
C13_FallsBackToText ==
    pout.done /\ impl = "part_000" /\ pin.ok /\ pin.bytes # <<>> =>
        /\ \A i \in 1 .. Len(pout.lines) : pout.lines[i].type # "error"
        /\ (/\ decodeCBOR(pin.bytes).thrown
            /\ ~(IsQuoted(Utf8(pin.bytes)) /\ IsHexString(Unquoted(Utf8(pin.bytes))))
            => pout.lines[Len(pout.lines)].text = Utf8(pin.bytes))

HasParsed(c) == call[c].text # NoText

OverWithoutFailure(sub) ==
    /\ command.pc = "done"
    /\ command.sub = sub
    /\ ociLoaded
    /\ failed = {}

\* C17: once an OCI LOAD command is over and no fetch and no parse has
\* failed, the cache holds all nine pages
C17_LoadsAll ==
    OverWithoutFailure("LOAD") => \A p \in Pages : Cache[p] # NotLoaded

\* the slot of district d in the array built from the pair text
ServedSlot(d) == At(Fill(PageOf(d), TextPair).page, SlotOf(d))

\* the command has printed that district d corresponds to sat n
ReportsSat(d, n) ==
    \E i \in 1 .. Len(command.lines) :
        /\ command.lines[i].template
               = "Bitcoin District #${districtNumber} corresponds to sat ${sat}"
        /\ command.lines[i].d = d
        /\ command.lines[i].n = n

\* C18: an OCI <district> command entered first, for a district in range
\* whose slot is not 0, with every fetch succeeding, has reported the sat of
\* the district when it is over
C18_ReportsAtOnce ==
    /\ OverWithoutFailure("DISTRICT")
    /\ command.n = 1
    /\ ~OutOfRange(command.d)
    /\ call["a"].text \in {NoText, TextPair}
    /\ ~Falsy(ServedSlot(command.d))
    => ReportsSat(command.d, ServedSlot(command.d).v)

\* the n bytes of v, a number from 0 on, most significant byte first
RECURSIVE BigEndian(_, _)
BigEndian(v, n) == IF n = 0 THEN <<>> ELSE BigEndian(v \div 256, n - 1) \o <<v % 256>>

\* the number v has the bytes bs as its big-endian unsigned form
IsUnsigned(v, bs) == v >= 0 /\ BigEndian(v, Len(bs)) = bs

\* the value of 8 argument bytes: the unsigned upper and lower words
IsUnsignedWide(val, bs) ==
    IF val.t = "num" THEN SubSeq(bs, 1, 4) = <<0, 0, 0, 0>> /\ IsUnsigned(val.v, SubSeq(bs, 5, 8))
    ELSE /\ val.t = "wide"
         /\ IsUnsigned(val.v[1], SubSeq(bs, 1, 4))
         /\ IsUnsigned(val.v[2], SubSeq(bs, 5, 8))

\* the value val is the argument bytes bs read as a big-endian unsigned
\* integer
IsArgument(val, bs) ==
    IF Len(bs) = 8 THEN IsUnsignedWide(val, bs)
    ELSE val.t = "num" /\ IsUnsigned(val.v, bs)

\* the argument that the negative integer val stands for: -1 - val
ArgumentOfNegative(val) ==
    IF val.t = "num" THEN Num(-1 - val.v)
    ELSE IF val.t = "wide" /\ val.neg THEN [val EXCEPT !.neg = FALSE]
    ELSE NaN

\* C21: an integer whose argument is the 1, 2, 4 or 8 bytes after the header
\* decodes to those bytes read as a big-endian unsigned integer (major type
\* 0) and to -1 minus it (major type 1), also from 2^31 on; one whose
\* argument is the low 5 bits decodes to them
C21_BigEndianArgument ==
    pout.done /\ pin.kind = "tree" =>
        /\ pin.tree.k = "arg" /\ pin.tree.m = 0 =>
               ~pout.thrown /\ IsArgument(pout.val, pin.tree.bs)
        /\ pin.tree.k = "arg" /\ pin.tree.m = 1 =>
               ~pout.thrown /\ IsArgument(ArgumentOfNegative(pout.val), pin.tree.bs)
        /\ pin.tree \in {UInt(0), UInt(1), UInt(23)} => pout.val = Num(pin.tree.n)

\* the additional information of major type 7 that the decoder names
Recognized == {20, 21, 22, 23, 25, 26, 27}

\* C22: a header of major type 7 whose additional information is none of
\* 20, 21, 22, 23, 25, 26, 27 decodes, without failing, to its raw argument:
\* the additional information itself, or the byte that follows for 24
C22_UnrecognizedFallsBack ==
    /\ pout.done
    /\ pin.kind = "bytes"
    /\ pin.bytes # <<>>
    /\ MajorType(pin.bytes[1]) = 7
    /\ AdditionalInfo(pin.bytes[1]) \notin Recognized
    => /\ ~pout.thrown
       /\ IF AdditionalInfo(pin.bytes[1]) = 24
          THEN Len(pin.bytes) > 1 => pout.val = Num(pin.bytes[2])
          ELSE pout.val = Num(AdditionalInfo(pin.bytes[1]))

\* C23: major type 7 is decoded by its additional information: 20, 21, 22,
\* 23 give false, true, null, undefined; 25 gives the value that marks a
\* half float as unsupported, whatever its two bytes; 26 and 27 give the
\* float of the 4 and of the 8 bytes that follow
C23_BranchByInfo ==
    pout.done /\ ~(pin.kind = "tree" /\ ~pin.ready) /\ pin.bytes # <<>>
              /\ MajorType(pin.bytes[1]) = 7 =>
        /\ AdditionalInfo(pin.bytes[1]) = 20 => pout.val = Bool(FALSE)
        /\ AdditionalInfo(pin.bytes[1]) = 21 => pout.val = Bool(TRUE)
        /\ AdditionalInfo(pin.bytes[1]) = 22 => pout.val = Null
        /\ AdditionalInfo(pin.bytes[1]) = 23 => pout.val = Undefined
        /\ AdditionalInfo(pin.bytes[1]) = 25 /\ Len(pin.bytes) >= 3 =>
               pout.val = Str(TextFloat16)
        /\ AdditionalInfo(pin.bytes[1]) = 26 /\ Len(pin.bytes) >= 5 =>
               pout.val = Float(SubSeq(pin.bytes, 2, 5))
        /\ AdditionalInfo(pin.bytes[1]) = 27 /\ Len(pin.bytes) >= 9 =>
               pout.val = Float(SubSeq(pin.bytes, 2, 9))

(***************************************************************************)
(* The parse of a page, pages 2 .. 8.                                      *)
(***************************************************************************)
TextDone == pout.done /\ pin.kind = "text"

\* the list that the text of a page 2 or 3 makes once it is put in brackets
FlatList(text) == JSONparse(<<"[">> \o text \o <<"]">>)

\* a flat list of 2 * PageSize numbers whose second half names every slot once
IsFullFlat(r) ==
    /\ r.ok
    /\ IsArr(r.val)
    /\ Len(r.val.v) = 2 * PageSize
    /\ \A i \in 1 .. 2 * PageSize : IsNum(r.val.v[i])
    /\ \A i, j \in PageSize + 1 .. 2 * PageSize : r.val.v[i] = r.val.v[j] => i = j

\* the page of a flat list split at element PageSize
SplitInHalves(flat, page) ==
    \A i \in 1 .. PageSize :
        At(page, flat[PageSize + i].v) = Num(SumTo(SubSeq(flat, 1, PageSize), i))

\* C24: on pages 2 and 3 the list is split at element PageSize: the deltas
\* are its elements 0 .. PageSize - 1 and the indices its elements
\* PageSize .. 2 * PageSize - 1, so that every element of the list counts
C24_SplitAtPageSize ==
    TextDone /\ pin.page \in {2, 3} /\ IsFullFlat(FlatList(pin.text)) =>
        pout.ok /\ SplitInHalves(FlatList(pin.text).val.v, pout.page)

\* the first of the texts (a) without backslash-n-two-spaces, (b) without
\* two-spaces, (c) as it is, that is JSON, parsed
FirstValid(text) ==
    IF JSONparse(RemoveAll(text, BackslashNTwoSpaces)).ok
    THEN JSONparse(RemoveAll(text, BackslashNTwoSpaces))
    ELSE IF JSONparse(RemoveAll(text, TwoSpaces)).ok
    THEN JSONparse(RemoveAll(text, TwoSpaces))
    ELSE JSONparse(text)

\* a parsed value that is a string is parsed again
AgainIfText(r) == IF r.ok /\ IsStr(r.val) THEN JSONparse(r.val.v) ELSE r

\* a value that is a pair of arrays
IsPairValue(r) ==
    r.ok /\ IsArr(r.val) /\ Len(r.val.v) = 2 /\ IsArr(r.val.v[1]) /\ IsArr(r.val.v[2])

\* the page array that the implementation builds from a pair
PageOfPair(deltas, indices) ==
    IF impl = "Home" THEN Rebuild(deltas, indices) ELSE GuardedRebuild(deltas, indices)

\* C25: on the pages that are repaired (4 .. 8) the value of the page is the
\* parse of the first of (a), (b), (c) that is JSON, parsed once more when
\* it is a string; when that value is a pair of arrays the page loads from it
C25_RepairInOrder ==
    TextDone /\ pin.page \in 4 .. 8 /\ IsPairValue(AgainIfText(FirstValid(pin.text))) =>
        /\ pout.ok
        /\ pout.page = PageOfPair(AgainIfText(FirstValid(pin.text)).val.v[1].v,
                                  AgainIfText(FirstValid(pin.text)).val.v[2].v)

\* an object of exactly two keys whose values are both arrays
IsTwoArrays(r) ==
    /\ r.ok
    /\ IsObj(r.val)
    /\ Len(ObjectKeys(r.val.v)) = 2
    /\ \A i \in 1 .. 2 : IsArr(ObjGet(r.val.v, ObjectKeys(r.val.v)[i]))

\* C26: on every page whose text parses to an object of exactly two keys
\* with arrays as values, the page loads from the two values, in the order
\* of the keys, as deltas and indices
C26_MappingLoads ==
    TextDone /\ pin.page \notin {2, 3} /\ IsTwoArrays(JSONparse(pin.text)) =>
        /\ pout.ok
        /\ pout.page =
              PageOfPair(ObjGet(JSONparse(pin.text).val.v, ObjectKeys(JSONparse(pin.text).val.v)[1]).v,
                         ObjGet(JSONparse(pin.text).val.v, ObjectKeys(JSONparse(pin.text).val.v)[2]).v)

\* C27: the page array built from a pair has exactly PageSize slots, and
\* each slot holds 0 or one of the sums deltas[0] + ... + deltas[i]
C27_PageSizeSlots ==
    PairDone =>
        /\ Len(pout.page) = PageSize
        /\ \A k \in 1 .. Len(pout.page) :
              \/ pout.page[k] = Num(0)
              \/ \E i \in 1 .. Len(pin.deltas) : pout.page[k] = Num(SumTo(pin.deltas, i))

(***************************************************************************)
(* The command line.                                                       *)
(***************************************************************************)
\* C28: at most one command handler is in flight; while one is in flight
\* isProcessing is true, from its start to its setIsProcessing(false); and
\* every command was taken from a render whose isProcessing was false
C28_OneInFlight ==
    /\ Cardinality(Running) <= 1
    /\ Running # {} => isProcessing
    /\ \A k \in 1 .. MaxKeys : handler[k].pc # "idle" => ~handler[k].seen.isProcessing

\* C28, reached: BLOCK has run and is over, and the OCI <district> entered
\* after it waits for its page with isProcessing true
C28_Reached ==
    /\ handler[1].name = "BLOCK" /\ handler[1].pc = "done"
    /\ handler[2].name = "OCI DISTRICT" /\ handler[2].pc = "page"
    /\ handler[3].pc = "idle"
    /\ isProcessing
    /\ rendered.isProcessing

\* C29: the input is enabled, and a command is taken, only after the
\* detection of the connectivity mode has set the mode and the base URL
C29_DetectedFirst ==
    (Keys > 0 \/ ~rendered.isProcessing) => startup.pc = "done"

\* C30: a page fetch or a lookup fetch of an OCI command that follows a MODE
\* command goes to the base URL that the MODE command has set
C30_NewBase ==
    \A i, j \in 1 .. Len(log) :
        /\ i < j
        /\ log[i].kind = "mode"
        /\ log[j].kind \in {"page", "lookup"}
        /\ \A m \in (i + 1) .. (j - 1) : log[m].kind \notin {"mode", "detected"}
        => log[j].baseUrl = log[i].baseUrl

====
